---- MODULE Spec2Model ----
(***************************************************************************)
(* Model of the Spatial Guidance Engine of backend/main.py: the pure       *)
(* functions _extract_targets, _estimate_distance,                         *)
(* _calculate_precise_position, _direction_for_targets,                    *)
(* _free_path_direction, _nearest_obstacle_distance, _analyze_obstacles,   *)
(* _path_smoothing_instruction and _compute_guidance, driven by a process  *)
(* that receives frames (detections + question) and calls the engine.      *)
(*                                                                         *)
(* Representation.                                                         *)
(*  - A Python str is a TLA+ string; Len, \o, SubSeq, Head and Tail act on *)
(*    its characters.  The character U+2014 (em dash) of the phrase matrix *)
(*    is written "--" because the module text is ASCII.                    *)
(*  - A bounding box is a tuple <<x1, y1, x2, y2>> of integer pixel        *)
(*    coordinates; a missing box (None) is the empty tuple <<>>.           *)
(*  - A float is an exact rational.  Confidences are integers in           *)
(*    hundredths; positions on the unit interval are kept as numerators    *)
(*    over the frame width; a value rounded to one decimal (round(x, 1))   *)
(*    is an integer number of tenths.  Every comparison against a decimal  *)
(*    threshold is cross-multiplied (h / H > 0.4 is 10 * h > 4 * H).       *)
(*  - An exception leaving a function is the record [raised |-> <name>].   *)
(***************************************************************************)
EXTENDS Integers, Sequences, FiniteSets, TLC

VARIABLES
    frame,      \* <<img_width, img_height>> of the frame being analysed
    objects,    \* the detections of the frame, in detector order
    question,   \* the user's query
    hashseed,   \* the per-process seed of Python's str hash (PYTHONHASHSEED)
    result,     \* what the last call returned: [fn, args.., ret]; NoCall before
    prev,       \* the return of the previous _compute_guidance call on this frame
    session     \* the /ws/guide session: the handler's locals, the clock, the
                \* last message sent, and the history the properties read

vars == <<frame, objects, question, hashseed, result, prev, session>>

(***************************************************************************)
(* Bounds of the model.                                                    *)
(***************************************************************************)
\* the longest detection list of a frame
MaxObjects == 2

\* the str-hash seeds a process may start with: one per parity of the hash
\* of a given string, which is all the two-variant phrase choice reads
HashSeeds ==
    {0, 1}

(***************************************************************************)
(* Arithmetic helpers.                                                     *)
(***************************************************************************)
Abs(n) ==
    IF n < 0 THEN -n ELSE n

Max(a, b) ==
    IF a >= b THEN a ELSE b

Min(a, b) ==
    IF a <= b THEN a ELSE b

\* floor(n / d) for d > 0 and any integer n
FloorDiv(n, d) ==
    IF n >= 0 THEN n \div d ELSE -((-n + d - 1) \div d)

\* Python's round() of the rational n / d (d > 0) to an integer: nearest,
\* ties to the even neighbour.
RoundHalfEven(n, d) ==
    LET q == FloorDiv(n, d)
        r == n - q * d
    IN  IF 2 * r < d THEN q
        ELSE IF 2 * r > d THEN q + 1
        ELSE IF q % 2 = 0 THEN q ELSE q + 1

(***************************************************************************)
(* String helpers: the str methods the engine uses.                        *)
(***************************************************************************)
\* the upper-case ASCII letters and their lower-case forms
LowerOf ==
    "A" :> "a" @@ "B" :> "b" @@ "C" :> "c" @@ "D" :> "d" @@ "E" :> "e" @@
    "F" :> "f" @@ "G" :> "g" @@ "H" :> "h" @@ "I" :> "i" @@ "J" :> "j" @@
    "K" :> "k" @@ "L" :> "l" @@ "M" :> "m" @@ "N" :> "n" @@ "O" :> "o" @@
    "P" :> "p" @@ "Q" :> "q" @@ "R" :> "r" @@ "S" :> "s" @@ "T" :> "t" @@
    "U" :> "u" @@ "V" :> "v" @@ "W" :> "w" @@ "X" :> "x" @@ "Y" :> "y" @@
    "Z" :> "z"

LowerChar(c) ==
    IF c \in DOMAIN LowerOf THEN LowerOf[c] ELSE c

RECURSIVE Lower(_)
\* str.lower()
Lower(s) ==
    IF s = "" THEN "" ELSE LowerChar(Head(s)) \o Lower(Tail(s))

\* needle in haystack (Python's substring test)
Contains(haystack, needle) ==
    \E i \in 1..(Len(haystack) - Len(needle) + 1) :
        SubSeq(haystack, i, i + Len(needle) - 1) = needle

\* str.endswith(tuple of one-character suffixes)
EndsWithAny(s, suffixes) ==
    Len(s) > 0 /\ SubSeq(s, Len(s), Len(s)) \in suffixes

\* str.startswith(prefix)
StartsWith(s, prefix) ==
    Len(s) >= Len(prefix) /\ SubSeq(s, 1, Len(prefix)) = prefix

Whitespace == {" ", "\t", "\n"}

RECURSIVE LStrip(_, _)
LStrip(s, chars) ==
    IF s # "" /\ Head(s) \in chars THEN LStrip(Tail(s), chars) ELSE s

RECURSIVE RStrip(_, _)
RStrip(s, chars) ==
    IF s # "" /\ SubSeq(s, Len(s), Len(s)) \in chars
    THEN RStrip(SubSeq(s, 1, Len(s) - 1), chars)
    ELSE s

\* str.strip(chars)
Strip(s, chars) ==
    RStrip(LStrip(s, chars), chars)

RECURSIVE SplitWs(_, _, _)
\* str.split(): the maximal runs of non-whitespace characters, in order
SplitWs(s, cur, acc) ==
    IF s = "" THEN (IF cur = "" THEN acc ELSE Append(acc, cur))
    ELSE IF Head(s) \in Whitespace
         THEN SplitWs(Tail(s), "", IF cur = "" THEN acc ELSE Append(acc, cur))
         ELSE SplitWs(Tail(s), cur \o Head(s), acc)

Split(s) ==
    SplitWs(s, "", <<>>)

Digits == "0123456789"

RECURSIVE IntToStr(_)
\* str(n) for n >= 0
IntToStr(n) ==
    IF n < 10 THEN SubSeq(Digits, n + 1, n + 1)
    ELSE IntToStr(n \div 10) \o SubSeq(Digits, (n % 10) + 1, (n % 10) + 1)

\* f"{x:.1f}" for x >= 0 already rounded to one decimal, given in tenths
FormatTenths(t) ==
    IntToStr(t \div 10) \o "." \o IntToStr(t % 10)

\* the elements of a sequence
Range(s) ==
    {s[i] : i \in DOMAIN s}

\* list(dict.fromkeys(seq)): first occurrences, in order
Dedupe(seq) ==
    LET keep == {i \in DOMAIN seq : \A j \in 1..(i - 1) : seq[j] # seq[i]}
        F[i \in 0..Len(seq)] ==
            IF i = 0 THEN <<>>
            ELSE LET p == F[i - 1]
                 IN  IF i \in keep THEN Append(p, seq[i]) ELSE p
    IN  F[Len(seq)]

(***************************************************************************)
(* _extract_targets                                                        *)
(***************************************************************************)
StopWords ==
    {"the", "a", "an", "to", "is", "are", "there", "on", "at", "my", "in",
     "for", "of", "do", "i", "can", "you", "me", "near"}

\* ExtractTargets capping the keywords before the repeats are dropped
ExtractTargetsCapFirst(q) ==
    LET raw == Split(Lower(q))
        tokens == [i \in DOMAIN raw |-> Strip(raw[i], {"?", ".", ",", "!", " "})]
        nouns == SelectSeq(tokens,
                           LAMBDA t : t # "" /\ t \notin StopWords /\ Len(t) > 2)
    IN  Dedupe(SubSeq(nouns, 1, Min(3, Len(nouns))))

ExtractTargets(q) ==
    LET raw == Split(Lower(q))
        tokens == [i \in DOMAIN raw |-> Strip(raw[i], {"?", ".", ",", "!", " "})]
        nouns == SelectSeq(tokens,
                           LAMBDA t : t # "" /\ t \notin StopWords /\ Len(t) > 2)
        uniq == Dedupe(nouns)
    IN  SubSeq(uniq, 1, Min(3, Len(uniq)))

(***************************************************************************)
(* ObjectDetection: [name, confidence (hundredths), bbox].                 *)
(***************************************************************************)
\* "not obj.bbox or len(obj.bbox) != 4"
NoBox(obj) ==
    Len(obj.bbox) # 4

(***************************************************************************)
(* _estimate_distance                                                      *)
(***************************************************************************)
\* EstimateDistance answering with the spoken form of the middle label
EstimateDistanceSpoken(obj, img_height) ==
    IF NoBox(obj) THEN "unknown"
    ELSE
        LET height == obj.bbox[4] - obj.bbox[2]
            bottom_y == obj.bbox[4]
        IN  IF 10 * height > 4 * img_height /\ 10 * bottom_y > 7 * img_height
                THEN "very close"
            ELSE IF 100 * height > 25 * img_height /\ 10 * bottom_y > 6 * img_height
                THEN "close"
            ELSE IF 100 * height > 15 * img_height /\ 10 * bottom_y > 5 * img_height
                THEN "medium distance"
            ELSE IF 100 * height > 8 * img_height
                THEN "far"
            ELSE "very far"

EstimateDistance(obj, img_height) ==
    IF NoBox(obj) THEN "unknown"
    ELSE
        LET y1 == obj.bbox[2]
            y2 == obj.bbox[4]
            height == y2 - y1
            bottom_y == y2
        IN  \* rel_height = height / img_height, rel_bottom = bottom_y / img_height
            IF 10 * height > 4 * img_height /\ 10 * bottom_y > 7 * img_height
                THEN "very close"
            ELSE IF 100 * height > 25 * img_height /\ 10 * bottom_y > 6 * img_height
                THEN "close"
            ELSE IF 100 * height > 15 * img_height /\ 10 * bottom_y > 5 * img_height
                THEN "medium"
            ELSE IF 100 * height > 8 * img_height
                THEN "far"
            ELSE "very far"

(***************************************************************************)
(* _calculate_precise_position                                             *)
(***************************************************************************)
horizontal_fov == 60

\* object_real_sizes, in hundredths of a metre
object_real_sizes ==
    "person" :> 170 @@ "car" :> 450 @@ "chair" :> 90 @@ "table" :> 75 @@
    "door" :> 200 @@ "laptop" :> 35 @@ "cell phone" :> 15 @@ "bottle" :> 25 @@
    "cup" :> 10 @@ "book" :> 25 @@ "clock" :> 30 @@ "tv" :> 100 @@
    "refrigerator" :> 180 @@ "microwave" :> 50 @@ "oven" :> 60 @@
    "sink" :> 60 @@ "toilet" :> 70 @@ "bed" :> 200 @@ "dining table" :> 150 @@
    "sofa" :> 200 @@ "potted plant" :> 50 @@ "bicycle" :> 170 @@
    "motorcycle" :> 200 @@ "airplane" :> 5000 @@ "bus" :> 1200 @@
    "train" :> 2500 @@ "truck" :> 800 @@ "boat" :> 600 @@ "stop sign" :> 80 @@
    "parking meter" :> 120 @@ "bench" :> 150 @@ "bird" :> 15 @@ "cat" :> 40 @@
    "dog" :> 60 @@ "horse" :> 250 @@ "sheep" :> 150 @@ "cow" :> 250 @@
    "elephant" :> 600 @@ "bear" :> 200 @@ "zebra" :> 250 @@ "giraffe" :> 500

\* RealSize with the size table never consulted: every class gets the default
RealSizeDefault(name) ==
    100

\* object_real_sizes.get(obj.name.lower(), 1.0), in hundredths of a metre
RealSize(name) ==
    IF Lower(name) \in DOMAIN object_real_sizes
    THEN object_real_sizes[Lower(name)]
    ELSE 100

\* AngleOffsetNum with the subtraction reversed (frame_center_x - center_x)
AngleOffsetNumMirrored(cx2, img_width) ==
    horizontal_fov * (img_width - cx2)

\* angle_offset = (center_x - frame_center_x) / pixels_per_degree as the
\* fraction num / den with den > 0, for cx2 = x1 + x2 = 2 * center_x
AngleOffsetNum(cx2, img_width) ==
    horizontal_fov * (cx2 - img_width)

AngleOffsetDen(img_width) ==
    2 * img_width

\* round(max(0.5, min(real_size * img_height / height, 100.0)), 1) in tenths
\* of a metre, for height # 0
DistanceMetersTenths(size100, img_height, height) ==
    IF height < 0 THEN 5                                    \* negative estimate
    ELSE IF size100 * img_height > 100 * 100 * height THEN 1000  \* min(.., 100.0)
    ELSE IF 2 * size100 * img_height < 100 * height THEN 5  \* max(0.5, ..)
    ELSE RoundHalfEven(10 * size100 * img_height, 100 * height)

\* the verbal position bucket of the angle num / den
PositionBucket(num, den) ==
    LET side == IF num < 0 THEN "left" ELSE "right"
    IN  IF Abs(num) < 5 * den THEN "directly ahead"
        ELSE IF Abs(num) < 15 * den THEN "slightly " \o side
        ELSE IF Abs(num) < 30 * den THEN side
        ELSE IF Abs(num) < 45 * den THEN "far " \o side
        ELSE "extreme " \o side

CalculatePrecisePosition(obj, img_width, img_height) ==
    IF NoBox(obj)
    THEN [angle |-> 0, distance_meters |-> 0, position |-> "unknown",
          coordinates |-> <<0, 0>>]
    ELSE
        LET x1 == obj.bbox[1]
            y1 == obj.bbox[2]
            x2 == obj.bbox[3]
            y2 == obj.bbox[4]
            cx2 == x1 + x2
            cy2 == y1 + y2
            width == x2 - x1
            height == y2 - y1
            num == AngleOffsetNum(cx2, img_width)
            den == AngleOffsetDen(img_width)
        IN  IF height = 0
            THEN [raised |-> "ZeroDivisionError"]    \* (real_size * focal) / height
            ELSE [angle |-> RoundHalfEven(10 * num, den),
                  distance_meters |->
                      DistanceMetersTenths(RealSize(obj.name), img_height, height),
                  position |-> PositionBucket(num, den),
                  coordinates |-> <<RoundHalfEven(cx2, 2), RoundHalfEven(cy2, 2)>>,
                  size_pixels |-> <<width, height>>,
                  confidence |-> obj.confidence]

(***************************************************************************)
(* _direction_for_targets                                                  *)
(***************************************************************************)
Raised(r) ==
    "raised" \in DOMAIN r

EmptyDict == [k \in {} |-> k]

Sum(f) ==
    LET S[i \in 0..Len(f)] == IF i = 0 THEN 0 ELSE S[i - 1] + f[i]
    IN  S[Len(f)]

\* BestTarget taking the first candidate, whatever its distance
BestTargetFirst(positions) ==
    positions[1]

\* min(positions, key=distance_meters): the first position of least distance
BestTarget(positions) ==
    LET i == CHOOSE i \in DOMAIN positions :
                 /\ \A j \in DOMAIN positions :
                        positions[i].distance_meters <= positions[j].distance_meters
                 /\ \A j \in 1..(i - 1) :
                        positions[j].distance_meters > positions[i].distance_meters
    IN  positions[i]

\* turn_instruction and turn_direction for the angle, given in tenths of a degree
TurnInstruction(angle) ==
    LET side == IF angle < 0 THEN "left" ELSE "right"
        deg == FormatTenths(Abs(angle))
    IN  IF Abs(angle) < 20 THEN "Continue straight ahead"
        ELSE IF Abs(angle) < 100
            THEN "Slight adjustment: turn " \o deg \o " degrees " \o side
        ELSE IF Abs(angle) < 300 THEN "Turn " \o deg \o " degrees " \o side
        ELSE IF Abs(angle) < 600 THEN "Sharp turn: " \o deg \o " degrees " \o side
        ELSE "Turn around: object is " \o deg \o " degrees " \o side \o " behind you"

TurnDirection(angle) ==
    LET side == IF angle < 0 THEN "left" ELSE "right"
    IN  IF Abs(angle) < 20 THEN "straight"
        ELSE IF Abs(angle) < 100 THEN "slight_" \o side
        ELSE IF Abs(angle) < 300 THEN side
        ELSE IF Abs(angle) < 600 THEN "sharp_" \o side
        ELSE "turn_around_" \o side

\* distance_desc for the distance, given in tenths of a metre
DistanceDesc(distance) ==
    LET m == FormatTenths(distance)
    IN  IF distance < 5 THEN "very close (" \o m \o " meters)"
        ELSE IF distance < 15 THEN "close (" \o m \o " meters)"
        ELSE IF distance < 30 THEN "medium distance (" \o m \o " meters)"
        ELSE IF distance < 100 THEN "far (" \o m \o " meters)"
        ELSE "very far (" \o m \o " meters)"

ApproachInstruction(distance) ==
    IF distance < 5 THEN "Move very slowly and carefully"
    ELSE IF distance < 15 THEN "Take a few careful steps forward"
    ELSE IF distance < 30 THEN "Walk forward steadily"
    ELSE IF distance < 100 THEN "Walk forward at normal pace"
    ELSE "Walk forward, it's quite far"

FullInstruction(angle, distance) ==
    IF Abs(angle) < 20
    THEN ApproachInstruction(distance) \o ". Target is directly ahead, "
             \o DistanceDesc(distance) \o "."
    ELSE TurnInstruction(angle) \o ", then " \o Lower(ApproachInstruction(distance))
             \o ". Target is " \o DistanceDesc(distance) \o "."

\* A confidence is the fraction num / den of hundredths.
Conf(num, den) ==
    [num |-> num, den |-> den]

DirectionForTargets(target_objs, width, height) ==
    IF target_objs = <<>>
    THEN [direction |-> "unknown", distance |-> "unknown", confidence |-> Conf(0, 1),
          navigation |-> EmptyDict]
    ELSE
        LET positions == [i \in DOMAIN target_objs |->
                             CalculatePrecisePosition(target_objs[i], width, height)]
        IN  IF \E i \in DOMAIN positions : Raised(positions[i])
            THEN [raised |-> "ZeroDivisionError"]
            ELSE IF \E i \in DOMAIN positions : "confidence" \notin DOMAIN positions[i]
            THEN [raised |-> "KeyError"]                 \* p["confidence"]
            ELSE
                LET best_target == BestTarget(positions)
                    avg_confidence ==
                        Conf(Sum([i \in DOMAIN positions |-> positions[i].confidence]),
                             Len(positions))
                    angle == best_target.angle
                    distance == best_target.distance_meters
                IN  [direction |-> TurnDirection(angle),
                     distance |-> DistanceDesc(distance),
                     confidence |-> avg_confidence,
                     target_count |-> Len(target_objs),
                     navigation |->
                        [angle_degrees |-> angle,
                         distance_meters |-> distance,
                         turn_instruction |-> TurnInstruction(angle),
                         approach_instruction |-> ApproachInstruction(distance),
                         full_instruction |-> FullInstruction(angle, distance),
                         position_description |-> best_target.position,
                         coordinates |-> best_target.coordinates]]

(***************************************************************************)
(* list.sort(key=...): the indices of keys in stable ascending order.      *)
(***************************************************************************)
SortedIndices(keys) ==
    LET n == Len(keys)
        Rank(i) == Cardinality({j \in 1..n : \/ keys[j] < keys[i]
                                             \/ keys[j] = keys[i] /\ j < i}) + 1
    IN  [r \in 1..n |-> CHOOSE i \in 1..n : Rank(i) = r]

(***************************************************************************)
(* _estimate_distance's default img_height, used by                        *)
(* _nearest_obstacle_distance, which passes no frame height.               *)
(***************************************************************************)
DefaultImgHeight == 480

(***************************************************************************)
(* _nearest_obstacle_distance                                              *)
(***************************************************************************)
NearestOrder ==
    <<"very close", "close", "medium", "far", "very far", "unknown", "clear">>

\* order.index(d)  (0-based)
OrderIndex(order, d) ==
    (CHOOSE i \in DOMAIN order : order[i] = d /\ \A j \in 1..(i - 1) : order[j] # d) - 1

NearestObstacleDistance(objs) ==
    LET F[i \in 0..Len(objs)] ==
            IF i = 0 THEN [best_rank |-> Len(NearestOrder), best |-> "clear"]
            ELSE LET p == F[i - 1]
                     d == EstimateDistance(objs[i], DefaultImgHeight)
                 IN  IF d \in Range(NearestOrder)
                        /\ OrderIndex(NearestOrder, d) < p.best_rank
                     THEN [best_rank |-> OrderIndex(NearestOrder, d), best |-> d]
                     ELSE p
    IN  F[Len(objs)].best

(***************************************************************************)
(* _free_path_direction.  An interval <<s, e>> holds the pixel numerators  *)
(* of the normalized interval (s / img_width, e / img_width).              *)
(***************************************************************************)
\* the clipped, non-degenerate intervals of the boxes, in detection order
FreePathIntervals(objs, img_width) ==
    LET Clip(x) == Max(0, Min(img_width, x))
        boxed == SelectSeq(objs, LAMBDA o : ~NoBox(o)
                                           /\ Clip(o.bbox[3]) > Clip(o.bbox[1]))
    IN  [i \in DOMAIN boxed |-> <<Clip(boxed[i].bbox[1]), Clip(boxed[i].bbox[3])>>]

\* intervals.sort(key=lambda x: x[0])
SortIntervals(intervals) ==
    LET idx == SortedIndices([i \in DOMAIN intervals |-> intervals[i][1]])
    IN  [r \in DOMAIN intervals |-> intervals[idx[r]]]

\* the merge loop ending a merged interval where the last interval joined ends
MergeIntervalsLastEnd(sorted, img_width) ==
    LET F[i \in 1..Len(sorted)] ==
            IF i = 1 THEN [merged |-> <<>>, cur |-> sorted[1]]
            ELSE LET p == F[i - 1]
                     s == sorted[i][1]
                     e == sorted[i][2]
                 IN  IF 100 * s <= 100 * p.cur[2] + img_width
                     THEN [merged |-> p.merged, cur |-> <<p.cur[1], e>>]
                     ELSE [merged |-> Append(p.merged, p.cur), cur |-> <<s, e>>]
        last == F[Len(sorted)]
    IN  Append(last.merged, last.cur)

\* the merge loop over the sorted, non-empty intervals (tolerance 0.01)
MergeIntervals(sorted, img_width) ==
    LET F[i \in 1..Len(sorted)] ==
            IF i = 1 THEN [merged |-> <<>>, cur |-> sorted[1]]
            ELSE LET p == F[i - 1]
                     s == sorted[i][1]
                     e == sorted[i][2]
                 IN  IF 100 * s <= 100 * p.cur[2] + img_width
                     THEN [merged |-> p.merged, cur |-> <<p.cur[1], Max(p.cur[2], e)>>]
                     ELSE [merged |-> Append(p.merged, p.cur), cur |-> <<s, e>>]
        last == F[Len(sorted)]
    IN  Append(last.merged, last.cur)

\* the complementary gaps wider than 0.05, left to right
FindGaps(merged, img_width) ==
    LET F[i \in 0..Len(merged)] ==
            IF i = 0 THEN [gaps |-> <<>>, prev_end |-> 0]
            ELSE LET p == F[i - 1]
                     s == merged[i][1]
                     e == merged[i][2]
                 IN  [gaps |-> IF 100 * (s - p.prev_end) > 5 * img_width
                               THEN Append(p.gaps, <<p.prev_end, s>>)
                               ELSE p.gaps,
                      prev_end |-> e]
        last == F[Len(merged)]
    IN  IF 100 * (img_width - last.prev_end) > 5 * img_width
        THEN Append(last.gaps, <<last.prev_end, img_width>>)
        ELSE last.gaps

\* WidestGap taking the leftmost gap, whatever its width
FirstGap(gaps) ==
    gaps[1]

\* max(gaps, key=lambda g: g[1] - g[0]): the first gap of greatest width
WidestGap(gaps) ==
    LET w(g) == g[2] - g[1]
        i == CHOOSE i \in DOMAIN gaps :
                 /\ \A j \in DOMAIN gaps : w(gaps[j]) <= w(gaps[i])
                 /\ \A j \in 1..(i - 1) : w(gaps[j]) < w(gaps[i])
    IN  gaps[i]

\* GapDirection answering with the turn label of _direction_for_targets in
\* the centre band
GapDirectionStraight(rel2, img_width) ==
    IF 100 * Abs(rel2) < 12 * img_width THEN "straight"
    ELSE IF 10 * rel2 < -6 * img_width THEN "hard left"
    ELSE IF 100 * rel2 < -30 * img_width THEN "left"
    ELSE IF 100 * rel2 < -12 * img_width THEN "slightly left"
    ELSE IF 10 * rel2 > 6 * img_width THEN "hard right"
    ELSE IF 100 * rel2 > 30 * img_width THEN "right"
    ELSE IF 100 * rel2 > 12 * img_width THEN "slightly right"
    ELSE "straight"

\* the direction for rel = gap_center - 0.5 = rel2 / (2 * img_width),
\* where rel2 = widest[0] + widest[1] - img_width in pixel numerators
GapDirection(rel2, img_width) ==
    IF 100 * Abs(rel2) < 12 * img_width THEN "center"
    ELSE IF 10 * rel2 < -6 * img_width THEN "hard left"
    ELSE IF 100 * rel2 < -30 * img_width THEN "left"
    ELSE IF 100 * rel2 < -12 * img_width THEN "slightly left"
    ELSE IF 10 * rel2 > 6 * img_width THEN "hard right"
    ELSE IF 100 * rel2 > 30 * img_width THEN "right"
    ELSE IF 100 * rel2 > 12 * img_width THEN "slightly right"
    ELSE "center"

\* The label chain of GapDirection at a centre offset given in thousandths:
\* rel = rel1000 / 1000, which is rel2 / (2 * img_width) for img_width = 500.
DirectionOfRel(rel1000) ==
    GapDirection(rel1000, 500)

\* left_coverage and right_coverage of the merged intervals, in units of
\* 1 / (2 * img_width)
LeftCoverageWhole(merged, img_width) ==
    Sum([i \in DOMAIN merged |->
            IF 2 * merged[i][1] < img_width
            THEN Max(0, 2 * merged[i][2] - 2 * merged[i][1])
            ELSE 0])

LeftCoverage(merged, img_width) ==
    Sum([i \in DOMAIN merged |->
            IF 2 * merged[i][1] < img_width
            THEN Max(0, Min(2 * merged[i][2], img_width) - 2 * merged[i][1])
            ELSE 0])

RightCoverage(merged, img_width) ==
    Sum([i \in DOMAIN merged |->
            IF 2 * merged[i][2] > img_width
            THEN Max(0, 2 * merged[i][2] - Max(2 * merged[i][1], img_width))
            ELSE 0])

\* The floats of _free_path_direction are modelled by exact rationals.  The
\* two agree unless a comparison is an exact tie, where the rounding errors of
\* the float subtractions decide: two gaps of the same greatest width, or a
\* widest gap whose centre sits exactly on a direction threshold (0.06, 0.15
\* or 0.3 off the frame centre).  FloatTie marks these detection lists.
FloatTie(objs, img_width) ==
    LET intervals == FreePathIntervals(objs, img_width)
    IN  /\ intervals # <<>>
        /\ LET gaps == FindGaps(MergeIntervals(SortIntervals(intervals), img_width),
                                img_width)
           IN  /\ gaps # <<>>
               /\ LET widest == WidestGap(gaps)
                      rel2 == widest[1] + widest[2] - img_width
                  IN  \/ 100 * Abs(rel2)
                             \in {12 * img_width, 30 * img_width, 60 * img_width}
                      \/ \E i, j \in DOMAIN gaps :
                             /\ i # j
                             /\ gaps[i][2] - gaps[i][1] = widest[2] - widest[1]
                             /\ gaps[j][2] - gaps[j][1] = widest[2] - widest[1]

\* FreePathDirection asking _nearest_obstacle_distance for the distance also
\* when no detection projects an interval
FreePathDirectionNearestWhenEmpty(objs, img_width) ==
    LET intervals == FreePathIntervals(objs, img_width)
    IN  IF intervals = <<>>
        THEN [direction |-> "center", distance |-> NearestObstacleDistance(objs),
              confidence |-> Conf(50, 1)]
        ELSE
            LET merged == MergeIntervals(SortIntervals(intervals), img_width)
                gaps == FindGaps(merged, img_width)
            IN  IF gaps = <<>>
                THEN [direction |->
                          IF LeftCoverage(merged, img_width)
                                 < RightCoverage(merged, img_width)
                          THEN "left" ELSE "right",
                      distance |-> NearestObstacleDistance(objs),
                      confidence |-> Conf(30, 1)]
                ELSE
                    LET widest == WidestGap(gaps)
                    IN  [direction |->
                             GapDirection(widest[1] + widest[2] - img_width, img_width),
                         distance |-> NearestObstacleDistance(objs),
                         confidence |-> Conf(45, 1),
                         target_count |-> 0]

FreePathDirection(objs, img_width) ==
    LET intervals == FreePathIntervals(objs, img_width)
    IN  IF intervals = <<>>
        THEN [direction |-> "center", distance |-> "clear", confidence |-> Conf(50, 1)]
        ELSE
            LET merged == MergeIntervals(SortIntervals(intervals), img_width)
                gaps == FindGaps(merged, img_width)
            IN  IF gaps = <<>>
                THEN [direction |->
                          IF LeftCoverage(merged, img_width)
                                 < RightCoverage(merged, img_width)
                          THEN "left" ELSE "right",
                      distance |-> NearestObstacleDistance(objs),
                      confidence |-> Conf(30, 1)]
                ELSE
                    LET widest == WidestGap(gaps)
                    IN  [direction |->
                             GapDirection(widest[1] + widest[2] - img_width, img_width),
                         distance |-> NearestObstacleDistance(objs),
                         confidence |-> Conf(45, 1),
                         target_count |-> 0]

(***************************************************************************)
(* _analyze_obstacles                                                      *)
(***************************************************************************)
distance_order ==
    "very close" :> 0 @@ "close" :> 1 @@ "medium" :> 2 @@ "far" :> 3 @@ "very far" :> 4

threat_order ==
    "high" :> 0 @@ "medium" :> 1 @@ "low" :> 2

\* _sort_key ordering by threat first: (t, d) with d <= 5 as 6 * t + d
SortKeyThreatFirst(o) ==
    6 * (IF o.threat \in DOMAIN threat_order THEN threat_order[o.threat] ELSE 3)
    + (IF o.distance \in DOMAIN distance_order THEN distance_order[o.distance] ELSE 5)

\* _sort_key as one integer: (d, t) with t <= 3 orders as 4 * d + t
SortKey(o) ==
    4 * (IF o.distance \in DOMAIN distance_order THEN distance_order[o.distance] ELSE 5)
    + (IF o.threat \in DOMAIN threat_order THEN threat_order[o.threat] ELSE 3)

\* rel_area = area / (img_width * img_height) against 0.15 and 0.08
Threat(area, img_width, img_height) ==
    IF 100 * area > 15 * img_width * img_height THEN "high"
    ELSE IF 100 * area > 8 * img_width * img_height THEN "medium"
    ELSE "low"

\* in_path = 0.25 < rel_x < 0.75 and rel_y > 0.3, for cx2 = 2 * cx, cy2 = 2 * cy
InPath(cx2, cy2, img_width, img_height) ==
    /\ img_width < 2 * cx2
    /\ 2 * cx2 < 3 * img_width
    /\ 10 * cy2 > 6 * img_height

\* "left" if rel_x < 0.4 else "right" if rel_x > 0.6 else "center"
ObstaclePosition(cx2, img_width) ==
    IF 10 * cx2 < 8 * img_width THEN "left"
    ELSE IF 10 * cx2 > 12 * img_width THEN "right"
    ELSE "center"

\* "o in target_objs": list membership by value (pydantic model equality)
InList(o, list) ==
    \E i \in DOMAIN list : list[i] = o

\* IsObstacle without the "o in target_objs" test
IsObstacleKeepTargets(o, target_objs, img_width, img_height) ==
    /\ o.bbox # <<>>
    /\ LET cx2 == o.bbox[1] + o.bbox[3]
           cy2 == o.bbox[2] + o.bbox[4]
           area == (o.bbox[3] - o.bbox[1]) * (o.bbox[4] - o.bbox[2])
           threat == Threat(area, img_width, img_height)
           distance == EstimateDistance(o, img_height)
       IN  /\ InPath(cx2, cy2, img_width, img_height)
           /\ threat \in {"high", "medium"} \/ distance \in {"very close", "close"}

\* whether the loop body appends an entry for detection o
IsObstacle(o, target_objs, img_width, img_height) ==
    /\ ~(InList(o, target_objs) \/ o.bbox = <<>>)
    /\ LET cx2 == o.bbox[1] + o.bbox[3]
           cy2 == o.bbox[2] + o.bbox[4]
           area == (o.bbox[3] - o.bbox[1]) * (o.bbox[4] - o.bbox[2])
           threat == Threat(area, img_width, img_height)
           distance == EstimateDistance(o, img_height)
       IN  /\ InPath(cx2, cy2, img_width, img_height)
           /\ threat \in {"high", "medium"} \/ distance \in {"very close", "close"}

\* the entry appended for detection o
ObstacleEntry(o, img_width, img_height) ==
    [name |-> o.name,
     distance |-> EstimateDistance(o, img_height),
     position |-> ObstaclePosition(o.bbox[1] + o.bbox[3], img_width),
     threat |-> Threat((o.bbox[3] - o.bbox[1]) * (o.bbox[4] - o.bbox[2]),
                        img_width, img_height),
     confidence |-> o.confidence]

AnalyzeObstacles(objs, target_objs, img_width, img_height) ==
    LET kept == SelectSeq(objs,
                          LAMBDA o : IsObstacle(o, target_objs, img_width, img_height))
        obstacles == [i \in DOMAIN kept |-> ObstacleEntry(kept[i], img_width, img_height)]
        idx == SortedIndices([i \in DOMAIN obstacles |-> SortKey(obstacles[i])])
        sorted == [r \in DOMAIN obstacles |-> obstacles[idx[r]]]
    IN  SubSeq(sorted, 1, Min(3, Len(sorted)))

(***************************************************************************)
(* _path_smoothing_instruction                                             *)
(***************************************************************************)
\* hash(s) of a str.  CPython keys its str hash with a seed drawn at process
\* start (PYTHONHASHSEED, random unless the environment fixes it), so the
\* value is fixed by (seed, s) within a process and may differ, also in
\* parity, between processes.  Only that dependence is kept here.
StrHash(seed, s) ==
    seed + Len(s)

\* An Optional[str] is <<>> (None) or <<s>>.
None == <<>>

Some(s) ==
    <<s>>

\* target_ref
TargetRef(target_name, target_count) ==
    IF target_name # None /\ target_name[1] # "" /\ target_name[1] # "path"
    THEN IF target_count > 1
         THEN "the " \o target_name[1] \o "s"
         ELSE Strip("the " \o target_name[1], Whitespace)
    ELSE IF target_name = Some("path") THEN "the clear path"
    ELSE "it"

\* variants: direction -> distance -> alternative phrasings
Variants(target_ref) ==
       "center" :> (
           "very close" :> <<
              target_ref \o " is right in front. Slow and steady.",
              "Almost there--" \o target_ref \o " directly ahead, ease forward.">>
        @@ "close" :> <<
              target_ref \o " straight ahead, move forward carefully.",
              "Head straight--" \o target_ref \o " is just ahead.">>
        @@ "medium" :> <<
              target_ref \o " ahead, continue forward.",
              "Keep going straight toward " \o target_ref \o ".">>
        @@ "far" :> <<
              target_ref \o " further ahead, steady pace.",
              "Stay centered and continue forward.">>
        @@ "very far" :> <<
              target_ref \o " is far ahead, you can walk confidently.",
              "Long way ahead--proceed straight.">>
       )
    @@ "slightly left" :> (
           "very close" :> <<
              target_ref \o " just left, small step left then forward.",
              "Tiny left adjustment, then move ahead.">>
        @@ "close" :> <<
              "Drift a little left toward " \o target_ref \o ".",
              "Slight left, then forward.">>
        @@ "medium" :> <<
              "Slight left adjustment toward " \o target_ref \o ".",
              "Nudge left and go ahead.">>
        @@ "far" :> <<
              "Angle slightly left to line up with " \o target_ref \o ".",
              "Veer gently left then continue.">>
        @@ "very far" :> <<
              "Turn a touch left and continue toward it.",
              "Bring your direction a bit left and walk on.">>
       )
    @@ "left" :> (
           "very close" :> <<
              target_ref \o " is close on your left--turn carefully.",
              "Slow left turn, " \o target_ref \o " is right there.">>
        @@ "close" :> <<
              "Turn left and move forward slowly.",
              "Left turn now, then straight.">>
        @@ "medium" :> <<
              "Turn left toward " \o target_ref \o " then walk ahead.",
              "Face left and proceed forward.">>
        @@ "far" :> <<
              "Turn left and advance toward it.",
              "Rotate left then continue walking.">>
        @@ "very far" :> <<
              "Head left and keep a steady pace.",
              "Take a left heading and continue.">>
       )
    @@ "hard left" :> (
           "very close" :> <<
              "Sharp left needed now--go slowly.",
              "Hard left turn here, take care.">>
        @@ "close" :> <<
              "Make a firm left turn toward " \o target_ref \o ".",
              "Strong left turn, then forward.">>
        @@ "medium" :> <<
              "Hard left to align, then continue.",
              "Pivot left sharply and proceed.">>
        @@ "far" :> <<
              "Big left turn, then head forward.",
              "Swing left strongly and advance.">>
        @@ "very far" :> <<
              "Hard left then steady walk ahead.",
              "Rotate left fully and continue.">>
       )
    @@ "slightly right" :> (
           "very close" :> <<
              "Just right a little, then ahead.",
              "Tiny step right then move forward.">>
        @@ "close" :> <<
              "Ease slightly right toward " \o target_ref \o ".",
              "Shift a bit right then continue.">>
        @@ "medium" :> <<
              "Nudge right and go on.",
              "Slight right correction then forward.">>
        @@ "far" :> <<
              "Angle a little right then continue.",
              "Veer gently right toward it.">>
        @@ "very far" :> <<
              "Turn a touch right and walk forward.",
              "Bring your direction a bit right and proceed.">>
       )
    @@ "right" :> (
           "very close" :> <<
              target_ref \o " close on your right--turn carefully.",
              "Slow right turn, it's right there.">>
        @@ "close" :> <<
              "Turn right and move forward slowly.",
              "Right turn now, then straight ahead.">>
        @@ "medium" :> <<
              "Turn right toward " \o target_ref \o " then walk ahead.",
              "Face right and proceed forward.">>
        @@ "far" :> <<
              "Turn right and advance toward it.",
              "Rotate right then continue walking.">>
        @@ "very far" :> <<
              "Head right and keep a steady pace.",
              "Take a right heading and continue.">>
       )
    @@ "hard right" :> (
           "very close" :> <<
              "Sharp right needed now--go slowly.",
              "Hard right turn here, take care.">>
        @@ "close" :> <<
              "Make a firm right turn toward " \o target_ref \o ".",
              "Strong right turn, then forward.">>
        @@ "medium" :> <<
              "Hard right to align, then continue.",
              "Pivot right sharply and proceed.">>
        @@ "far" :> <<
              "Big right turn, then head forward.",
              "Swing right strongly and advance.">>
        @@ "very far" :> <<
              "Hard right then steady walk ahead.",
              "Rotate right fully and continue.">>
       )

\* variants.get(direction, {}).get(distance, [f"Move {direction} ({distance})."])
PhraseList(direction, distance, target_ref) ==
    LET v == Variants(target_ref)
    IN  IF direction \in DOMAIN v /\ distance \in DOMAIN v[direction]
        THEN v[direction][distance]
        ELSE <<"Move " \o direction \o " (" \o distance \o ").">>

\* ", ".join(parts)
RECURSIVE JoinComma(_)
JoinComma(parts) ==
    IF parts = <<>> THEN ""
    ELSE IF Len(parts) = 1 THEN parts[1]
    ELSE parts[1] \o ", " \o JoinComma(Tail(parts))

\* [obs for obs in obstacles if obs.get("distance") in ("very close", "close")]
CloseObstacles(obstacles) ==
    SelectSeq(obstacles, LAMBDA obs : obs.distance \in {"very close", "close"})

\* the obstacle warning appended to the base instruction ("" when none)
WatchClause(obstacles) ==
    LET close_obs == CloseObstacles(obstacles)
        shown == SubSeq(close_obs, 1, Min(2, Len(close_obs)))
        names == [i \in DOMAIN shown |-> shown[i].name \o " " \o shown[i].position]
    IN  IF close_obs = <<>> THEN ""
        ELSE ". Watch for " \o JoinComma(names) \o "."

\* confidence < 0.5
LowConfidenceBelowHalf(confidence) ==
    2 * confidence.num < 100 * confidence.den

\* confidence < 0.4
LowConfidence(confidence) ==
    confidence.num < 40 * confidence.den

\* the closing normalisation: strip, then end in '.', '!' or '?'
NormalizeEnding(text) ==
    LET stripped == Strip(text, Whitespace)
    IN  IF EndsWithAny(stripped, {".", "!", "?"}) THEN stripped ELSE stripped \o "."

PathSmoothingInstruction(direction_info, obstacles, target_name, seed) ==
    LET direction == direction_info.direction
        distance == direction_info.distance
        confidence == direction_info.confidence
        target_count == IF "target_count" \in DOMAIN direction_info
                        THEN direction_info.target_count ELSE 0
        target_ref == TargetRef(target_name, target_count)
        phrase_list == PhraseList(direction, distance, target_ref)
        idx == StrHash(seed, direction \o distance) % Len(phrase_list)
        base == phrase_list[idx + 1]
        warned == base \o WatchClause(obstacles)
        hinted == IF LowConfidence(confidence)
                  THEN warned \o " I'm not fully sure--double check."
                  ELSE warned
    IN  NormalizeEnding(hinted)

(***************************************************************************)
(* _compute_guidance                                                       *)
(***************************************************************************)
\* [o for o in objects if t in o.name.lower()]
Matches(objs, t) ==
    SelectSeq(objs, LAMBDA o : Contains(Lower(o.name), t))

\* FirstMatching leaving the loop after the first keyword, matched or not
FirstMatchingFirstOnly(objs, targets) ==
    IF targets # <<>> /\ Matches(objs, targets[1]) # <<>> THEN 1 ELSE 0

\* the index of the first keyword that has a match; 0 when none has
FirstMatching(objs, targets) ==
    LET matches == [i \in DOMAIN targets |-> Matches(objs, targets[i])]
        F[i \in 0..Len(targets)] ==
            IF i = 0 THEN 0
            ELSE LET p == F[i - 1]
                 IN  IF p # 0 THEN p
                     ELSE IF matches[i] # <<>> THEN i ELSE 0
    IN  F[Len(targets)]

\* CautionClause without its closing full stop
CautionClauseNoStop(obstacles) ==
    LET close_obs == CloseObstacles(obstacles)
    IN  IF close_obs = <<>> THEN ""
        ELSE " Caution: " \o close_obs[1].name \o " detected " \o close_obs[1].position

\* the obstacle warning of the precise path ("" when none)
CautionClause(obstacles) ==
    LET close_obs == CloseObstacles(obstacles)
    IN  IF close_obs = <<>> THEN ""
        ELSE " Caution: " \o close_obs[1].name \o " detected "
                 \o close_obs[1].position \o "."

ComputeGuidance(objs, q, img_width, img_height, seed) ==
    LET targets == ExtractTargets(q)
        hit == FirstMatching(objs, targets)
        target_objs == IF hit = 0 THEN <<>> ELSE Matches(objs, targets[hit])
        resolved == DirectionForTargets(target_objs, img_width, img_height)
    IN  IF Raised(resolved) THEN resolved
        ELSE
            LET fallback == resolved.direction = "unknown"
                \* direction_info.update(open_path)
                direction_info ==
                    IF fallback
                    THEN FreePathDirection(objs, img_width) @@ resolved
                    ELSE resolved
                target_name ==
                    IF hit # 0 THEN Some(targets[hit])
                    ELSE IF fallback THEN Some("path")
                    ELSE None
                obstacles == AnalyzeObstacles(objs, target_objs, img_width, img_height)
                precise == direction_info.navigation # EmptyDict
                instruction ==
                    IF precise
                    THEN direction_info.navigation.full_instruction
                             \o CautionClause(obstacles)
                    ELSE PathSmoothingInstruction(direction_info, obstacles,
                                                  target_name, seed)
            IN  [target |-> target_name,
                 direction |-> direction_info.direction,
                 distance |-> direction_info.distance,
                 confidence |-> direction_info.confidence,
                 instruction |-> instruction,
                 obstacles |-> obstacles,
                 target_count |-> IF "target_count" \in DOMAIN direction_info
                                  THEN direction_info.target_count ELSE 0,
                 navigation_data |-> direction_info.navigation,
                 precise_positioning |-> TRUE]

(***************************************************************************)
(* _focused_description                                                    *)
(***************************************************************************)
\* the image width horiz_pos assumes
AssumedWidth == 640

\* priority_order; each group lists its names in sorted() order
priority_order ==
    << <<"person">>,
       <<"bicycle", "bus", "car", "motorcycle", "truck">>,
       <<"cat", "dog">>,
       <<"bench", "chair">> >>

\* horiz_pos: "left" if rel < 0.33, "right" if rel > 0.66, for rel = mid / 640
HorizPos(obj) ==
    IF obj.bbox = <<>> THEN "center"
    ELSE LET mid2 == obj.bbox[1] + obj.bbox[3]
         IN  IF 100 * mid2 < 33 * 2 * AssumedWidth THEN "left"
             ELSE IF 100 * mid2 > 66 * 2 * AssumedWidth THEN "right"
             ELSE "center"

\* sep.join(parts)
RECURSIVE Join(_, _)
Join(sep, parts) ==
    IF parts = <<>> THEN ""
    ELSE IF Len(parts) = 1 THEN parts[1]
    ELSE parts[1] \o sep \o Join(sep, Tail(parts))

\* str.replace("  ", " "): left to right, without overlap
RECURSIVE ReplaceDoubleSpace(_)
ReplaceDoubleSpace(s) ==
    IF Len(s) < 2 THEN s
    ELSE IF SubSeq(s, 1, 2) = "  "
         THEN " " \o ReplaceDoubleSpace(SubSeq(s, 3, Len(s)))
         ELSE Head(s) \o ReplaceDoubleSpace(Tail(s))

\* str.upper() of one character
UpperChar(c) ==
    IF \E k \in DOMAIN LowerOf : LowerOf[k] = c
    THEN CHOOSE k \in DOMAIN LowerOf : LowerOf[k] = c
    ELSE c

\* str.capitalize(): first character upper-cased, the rest lower-cased
Capitalize(s) ==
    IF s = "" THEN "" ELSE UpperChar(Head(s)) \o Lower(Tail(s))

\* name + "s" whenever cnt > 1
PluralAlways(name, cnt) ==
    IF cnt > 1 THEN name \o "s" ELSE name

\* name + "s" when cnt > 1 and the name does not end in 's'
Plural(name, cnt) ==
    IF cnt > 1 /\ ~EndsWithAny(name, {"s"}) THEN name \o "s" ELSE name

FocusedDescription(objs) ==
    IF objs = <<>> THEN "No clear objects ahead. Path may be open."
    ELSE
        LET keys == [i \in DOMAIN objs |-> <<objs[i].name, HorizPos(objs[i])>>]
            \* info: its keys in insertion order, and its counts
            info_keys == Dedupe(keys)
            Count(k) == Cardinality({i \in DOMAIN keys : keys[i] = k})
            Total(name) == Cardinality({i \in DOMAIN objs : objs[i].name = name})
            \* max(pos_counts.keys(), key=...): the first position of greatest count
            DomPos(name) ==
                LET own == SelectSeq(info_keys, LAMBDA k : k[1] = name)
                    i == CHOOSE i \in DOMAIN own :
                             /\ \A j \in DOMAIN own : Count(own[j]) <= Count(own[i])
                             /\ \A j \in 1..(i - 1) : Count(own[j]) < Count(own[i])
                IN  own[i][2]
            Phrase(name) ==
                IF Total(name) = 1 THEN "1 " \o name \o " " \o DomPos(name)
                ELSE IntToStr(Total(name)) \o " " \o Plural(name, Total(name))
                         \o " " \o DomPos(name)
            GroupPhrases(group) ==
                LET present == SelectSeq(group, LAMBDA name : Total(name) > 0)
                IN  [i \in DOMAIN present |-> Phrase(present[i])]
            \* the loop over priority_order, left when the text passes 90 characters
            F[g \in 0..Len(priority_order)] ==
                IF g = 0 THEN [phrases |-> <<>>, stop |-> FALSE]
                ELSE LET p == F[g - 1]
                         added == GroupPhrases(priority_order[g])
                     IN  IF p.stop \/ added = <<>> THEN p
                         ELSE [phrases |-> p.phrases \o added,
                               stop |-> Len(Join("; ", p.phrases \o added)) > 90]
            prioritized == F[Len(priority_order)].phrases
            \* flat_counts, sorted by falling count, first three
            names == Dedupe([i \in DOMAIN info_keys |-> info_keys[i][1]])
            idx == SortedIndices([i \in DOMAIN names |-> -Total(names[i])])
            top == [r \in 1..Min(3, Len(names)) |-> names[idx[r]]]
            flat == [r \in DOMAIN top |->
                        IntToStr(Total(top[r])) \o " " \o Plural(top[r], Total(top[r]))]
            phrases == IF prioritized = <<>> THEN flat ELSE prioritized
            sentence == Strip(ReplaceDoubleSpace(Join("; ", phrases)), Whitespace)
        IN  Capitalize(IF sentence = "" THEN "Scene detected, no key obstacles."
                       ELSE sentence)

(***************************************************************************)
(* The frames and questions the process receives.  Boxes are placed on     *)
(* tenths of the frame, so that the normalized positions are the decimals  *)
(* the thresholds are written in, with one box one pixel off centre.       *)
(***************************************************************************)
Frames ==
    {<<640, 480>>, <<480, 640>>}

Queries ==
    {"where is the person", "find persons", "", "Where is my CUP?"}

\* the box spanning tenths x1..x2 of the width and y1..y2 of the height,
\* its left edge moved dx pixels
BoxAt(f, x1, y1, x2, y2, dx) ==
    <<(x1 * f[1]) \div 10 + dx, (y1 * f[2]) \div 10, (x2 * f[1]) \div 10, (y2 * f[2]) \div 10>>

Detection(name, confidence, bbox) ==
    [name |-> name, confidence |-> confidence, bbox |-> bbox]

\* the detections the detector may report for a frame of size f
Candidates(f) ==
    { Detection("person", 90, BoxAt(f, 2, 1, 8, 10, 0)),    \* large, bottom-centre
      Detection("Person", 90, <<>>),                        \* no box
      Detection("person", 30, BoxAt(f, 1, 5, 5, 5, 0)),     \* zero height
      Detection("cup", 90, BoxAt(f, 2, 1, 8, 10, -1)),      \* half a pixel left of centre
      Detection("cup", 90, BoxAt(f, 5, 2, 5, 8, 0)),        \* zero width
      Detection("chair", 90, BoxAt(f, 0, 2, 3, 10, 0)),     \* occupies [0, 0.3]
      Detection("chair", 30, BoxAt(f, 7, 2, 10, 10, 0)),    \* occupies [0.7, 1.0]
      Detection("chair", 90, BoxAt(f, 3, 4, 8, 10, 0)),     \* in the path
      Detection("dining table", 30, BoxAt(f, 0, 5, 10, 10, 0)),  \* the whole width
      Detection("bottle", 40, BoxAt(f, 1, 2, 5, 6, 0)) }    \* mid-height, left

\* the sequences over S of length at most n
SeqsUpTo(S, n) ==
    UNION {[1..k -> S] : k \in 0..n}

\* the sub-lists of a list (order kept): the target_objs of a direct call
SubLists(list) ==
    LET Pick(I) ==
            LET F[i \in 0..Len(list)] ==
                    IF i = 0 THEN <<>>
                    ELSE LET p == F[i - 1]
                         IN  IF i \in I THEN Append(p, list[i]) ELSE p
            IN  F[Len(list)]
    IN  {Pick(I) : I \in SUBSET DOMAIN list}

NoCall == [fn |-> "none"]

\* no /ws/guide session is open
NoSession == [state |-> "none"]

\* The process holds one frame (size, detections, question), as received.
\* The frame is handed to one function of the engine; _compute_guidance may
\* be called on it again, in the same process or after a restart.
Init ==
    /\ frame \in Frames
    /\ objects \in SeqsUpTo(Candidates(frame), MaxObjects)
    /\ question \in Queries
    /\ hashseed \in HashSeeds
    /\ result = NoCall
    /\ prev = NoCall
    /\ session = NoSession

\* the process is started again, with a new str-hash seed, on the same frame
Restart ==
    /\ result.fn = "_compute_guidance"
    /\ hashseed' \in HashSeeds
    /\ UNCHANGED <<frame, objects, question, result, prev, session>>

\* whether _compute_guidance finds no target and turns to _free_path_direction
FallsBack(objs, q) ==
    FirstMatching(objs, ExtractTargets(q)) = 0

\* Calls that reach _free_path_direction are followed on the frames where its
\* float arithmetic is the exact one (no FloatTie).
CallComputeGuidance ==
    /\ result.fn \in {"none", "_compute_guidance"}
    /\ FallsBack(objects, question) => ~FloatTie(objects, frame[1])
    /\ result' = [fn |-> "_compute_guidance",
                  ret |-> ComputeGuidance(objects, question, frame[1], frame[2], hashseed)]
    /\ prev' = IF result.fn = "_compute_guidance" THEN result ELSE NoCall
    /\ UNCHANGED <<frame, objects, question, hashseed, session>>

CallExtractTargets ==
    /\ result = NoCall
    /\ result' = [fn |-> "_extract_targets", ret |-> ExtractTargets(question)]
    /\ prev' = NoCall
    /\ UNCHANGED <<frame, objects, question, hashseed, session>>

CallCalculatePrecisePosition ==
    /\ result = NoCall
    /\ \E i \in DOMAIN objects :
        /\ result' = [fn |-> "_calculate_precise_position",
                      obj |-> objects[i],
                      ret |-> CalculatePrecisePosition(objects[i], frame[1], frame[2])]
        /\ prev' = NoCall
        /\ UNCHANGED <<frame, objects, question, hashseed, session>>

CallDirectionForTargets ==
    /\ result = NoCall
    /\ \E target_objs \in SubLists(objects) :
        /\ result' = [fn |-> "_direction_for_targets",
                      target_objs |-> target_objs,
                      ret |-> DirectionForTargets(target_objs, frame[1], frame[2])]
        /\ prev' = NoCall
        /\ UNCHANGED <<frame, objects, question, hashseed, session>>

CallFreePathDirection ==
    /\ result = NoCall
    /\ ~FloatTie(objects, frame[1])
    /\ result' = [fn |-> "_free_path_direction",
                  ret |-> FreePathDirection(objects, frame[1])]
    /\ prev' = NoCall
    /\ UNCHANGED <<frame, objects, question, hashseed, session>>

CallAnalyzeObstacles ==
    /\ result = NoCall
    /\ \E target_objs \in SubLists(objects) :
        /\ result' = [fn |-> "_analyze_obstacles",
                      target_objs |-> target_objs,
                      ret |-> AnalyzeObstacles(objects, target_objs, frame[1], frame[2])]
        /\ prev' = NoCall
        /\ UNCHANGED <<frame, objects, question, hashseed, session>>

\* The centre offsets rel = gap_center - 0.5 of a widest gap (thousandths) the
\* label chain is followed on.  -0.3 and -0.06 are offsets the float
\* subtraction yields exactly (the gap [0, 0.4], and [0, 0.88] of a 500-pixel
\* frame); the others lie strictly inside a band.
RelOffsets ==
    {-450, -300, -200, -100, -60, -30, 0, 30, 100, 200, 450}

\* _free_path_direction from "rel = gap_center - 0.5" on: the label of a
\* widest gap whose centre offset is rel
LabelGapCentre ==
    /\ result = NoCall
    /\ \E rel \in RelOffsets :
        /\ result' = [fn |-> "gap_direction", rel |-> rel, ret |-> DirectionOfRel(rel)]
        /\ prev' = NoCall
        /\ UNCHANGED <<frame, objects, question, hashseed, session>>

CallFocusedDescription ==
    /\ result = NoCall
    /\ result' = [fn |-> "_focused_description", ret |-> FocusedDescription(objects)]
    /\ prev' = NoCall
    /\ UNCHANGED <<frame, objects, question, hashseed, session>>

\* _estimate_distance(obj, img_height) on a detection of the frame
CallEstimateDistance ==
    /\ result = NoCall
    /\ \E i \in DOMAIN objects :
        /\ result' = [fn |-> "_estimate_distance",
                      obj |-> objects[i],
                      ret |-> EstimateDistance(objects[i], frame[2])]
        /\ prev' = NoCall
        /\ UNCHANGED <<frame, objects, question, hashseed, session>>

Next ==
    \/ Restart
    \/ CallComputeGuidance
    \/ CallExtractTargets
    \/ CallCalculatePrecisePosition
    \/ CallDirectionForTargets
    \/ CallFreePathDirection
    \/ CallAnalyzeObstacles
    \/ CallFocusedDescription
    \/ CallEstimateDistance
    \/ LabelGapCentre

(***************************************************************************)
(* ws_real_time_guidance: one /ws/guide session.  Times are in tenths of a *)
(* second.  One action is one turn of the receive loop, from receive_text  *)
(* to the message sent back.                                               *)
(***************************************************************************)
\* throttle_seconds = 0.3
throttle_seconds == 3

\* instruction_repeat_sec = 2.0
instruction_repeat_sec == 20

\* how long a session is followed after its start
MaxTicks == 22

\* time.time() when the session starts: like every real clock value it is
\* further from last_sent_time = 0.0 than both intervals
SessionStart ==
    throttle_seconds + instruction_repeat_sec

\* the time between one message and the next: within the throttle interval,
\* on it, past it, and around the repeat interval
Delays ==
    {1, throttle_seconds, throttle_seconds + 1,
     instruction_repeat_sec, instruction_repeat_sec + 1}

\* the image size _compute_guidance assumes in the session (its defaults)
WsFrame ==
    <<640, 480>>

\* the frames a client sends: what the detector reports for the image
\* (confidence above 0.35, boxes present) and the question
WsFrames ==
    { <<<<Detection("person", 90, BoxAt(WsFrame, 2, 1, 8, 10, 0))>>,
        "where is the person">>,
      <<<<Detection("chair", 90, BoxAt(WsFrame, 3, 4, 8, 10, 0))>>,
        "">>,
      <<<<>>, "">> }

\* _focused_description and _compute_guidance on each of these frames
WsFocused ==
    [f \in WsFrames |-> FocusedDescription(f[1])]

WsGuidance ==
    [f \in WsFrames, seed \in HashSeeds |->
        ComputeGuidance(f[1], f[2], WsFrame[1], WsFrame[2], seed)]

\* send_instruction with the test of the repeat interval turned into >=
SendInstructionAtInterval(instruction, last_instruction, now, last_sent_time) ==
    \/ Some(instruction) # last_instruction
    \/ now - last_sent_time >= instruction_repeat_sec

\* send_instruction
SendInstruction(instruction, last_instruction, now, last_sent_time) ==
    \/ Some(instruction) # last_instruction
    \/ now - last_sent_time > instruction_repeat_sec

\* the session once accepted: the handler's locals before the loop
Accepted(clock) ==
    [state |-> "open", clock |-> clock,
     last_instruction |-> None, last_sent_time |-> 0,
     out |-> [kind |-> "none"],
     \* history: the receive time of the last frame processed in full, and the
     \* last transmission of a non-empty instruction
     processed |-> None, sent |-> None]

WsInit ==
    /\ frame = WsFrame
    /\ objects = <<>>
    /\ question = ""
    /\ hashseed \in HashSeeds
    /\ result = NoCall
    /\ prev = NoCall
    /\ session \in {[state |-> "connecting", yolo_model |-> loaded,
                     clock |-> SessionStart, out |-> [kind |-> "none"]] :
                        loaded \in BOOLEAN}

\* ws.accept(), and the refusal when the detector is not loaded
WsAccept ==
    /\ session.state = "connecting"
    /\ session' = IF session.yolo_model
                  THEN Accepted(session.clock)
                  ELSE [state |-> "closed", ended |-> "model_not_loaded",
                        out |-> [kind |-> "error", error |-> "model_not_loaded"]]
    /\ UNCHANGED <<frame, objects, question, hashseed, result, prev>>

\* the next message may arrive after this delay
Arrives(delay) ==
    /\ session.state = "open"
    /\ session.clock + delay <= SessionStart + MaxTicks

\* a message that is not JSON, or carries no image: answered with an error
WsReceiveMalformed ==
    /\ \E delay \in Delays, error \in {"bad_json", "no_image"} :
        /\ Arrives(delay)
        /\ session' = [session EXCEPT
                          !.clock = @ + delay,
                          !.out = [kind |-> "error", error |-> error]]
    /\ UNCHANGED <<frame, objects, question, hashseed, result, prev>>

\* the test of the throttle on a message received at now
Throttled(now) ==
    now - session.last_sent_time < throttle_seconds

\* the payload of a processed frame (its objects list, the detections as the
\* client draws them, is left out)
Payload(focused, guidance, send_instruction, now) ==
    [kind |-> "payload",
     scene_description |-> focused,
     instruction |-> IF send_instruction THEN guidance.instruction ELSE "",
     direction |-> guidance.direction,
     distance |-> guidance.distance,
     confidence |-> guidance.confidence,
     target |-> guidance.target,
     obstacles |-> guidance.obstacles,
     ts |-> now]

\* Processed taking the time of every processed frame as last_sent_time
ProcessedStampsEveryFrame(sess, focused, guidance, now) ==
    IF Raised(guidance)
    THEN [sess EXCEPT !.clock = now,
                      !.out = [kind |-> "error", error |-> "frame_processing_failed"]]
    ELSE
      LET send_instruction ==
              SendInstruction(guidance.instruction, sess.last_instruction,
                              now, sess.last_sent_time)
          payload == Payload(focused, guidance, send_instruction, now)
      IN  [sess EXCEPT
              !.clock = now,
              !.last_instruction =
                  IF send_instruction THEN Some(guidance.instruction) ELSE @,
              !.last_sent_time = now,
              !.out = payload,
              !.processed = Some(now),
              !.sent =
                  IF payload.instruction # ""
                  THEN Some([text |-> payload.instruction, time |-> now,
                             repeats |-> sess.sent # None
                                         /\ sess.sent[1].text = payload.instruction])
                  ELSE @]

\* the session after a frame received at now was detected and guided
Processed(sess, focused, guidance, now) ==
    IF Raised(guidance)
    THEN [sess EXCEPT !.clock = now,
                      !.out = [kind |-> "error", error |-> "frame_processing_failed"]]
    ELSE
      LET send_instruction ==
              SendInstruction(guidance.instruction, sess.last_instruction,
                              now, sess.last_sent_time)
          payload == Payload(focused, guidance, send_instruction, now)
      IN  [sess EXCEPT
              !.clock = now,
              !.last_instruction =
                  IF send_instruction THEN Some(guidance.instruction) ELSE @,
              !.last_sent_time = IF send_instruction THEN now ELSE @,
              !.out = payload,
              !.processed = Some(now),
              !.sent =
                  IF payload.instruction # ""
                  THEN Some([text |-> payload.instruction, time |-> now,
                             repeats |-> sess.sent # None
                                         /\ sess.sent[1].text = payload.instruction])
                  ELSE @]

\* a message with an image sooner than the throttle allows: not processed
WsThrottleFrame ==
    /\ \E delay \in Delays :
        /\ Arrives(delay)
        /\ Throttled(session.clock + delay)
        /\ session' = [session EXCEPT
                          !.clock = @ + delay,
                          !.out = [kind |-> "status", status |-> "throttled"]]
    /\ UNCHANGED <<frame, objects, question, hashseed, result, prev>>

\* a message with an image that does not decode
WsFailFrame ==
    /\ \E delay \in Delays :
        /\ Arrives(delay)
        /\ ~Throttled(session.clock + delay)
        /\ session' = [session EXCEPT
                          !.clock = @ + delay,
                          !.out = [kind |-> "error",
                                   error |-> "frame_processing_failed"]]
    /\ UNCHANGED <<frame, objects, question, hashseed, result, prev>>

\* a message with an image: decoded, detected and guided
WsProcessFrame ==
    /\ \E delay \in Delays, f \in WsFrames :
        /\ Arrives(delay)
        /\ ~Throttled(session.clock + delay)
        /\ objects' = f[1]
        /\ question' = f[2]
        /\ \E focused \in {WsFocused[f]}, guidance \in {WsGuidance[f, hashseed]} :
            /\ result' = [fn |-> "_compute_guidance", ret |-> guidance]
            /\ session' = Processed(session, focused, guidance,
                                    session.clock + delay)
    /\ UNCHANGED <<frame, hashseed, prev>>

\* a message that is JSON but no object (a list, a number, a string, null):
\* json.loads returns it and data.get raises AttributeError outside every
\* except clause, so the handler leaves the loop, closes the socket in its
\* finally clause and ends with the exception
WsReceiveNotObject ==
    /\ session.state = "open"
    /\ session' = [state |-> "closed", ended |-> "AttributeError",
                   out |-> session.out]
    /\ UNCHANGED <<frame, objects, question, hashseed, result, prev>>

\* the client disconnects: the loop is left and the socket closed
WsDisconnect ==
    /\ session.state = "open"
    /\ session' = [state |-> "closed", ended |-> "disconnect", out |-> session.out]
    /\ UNCHANGED <<frame, objects, question, hashseed, result, prev>>

WsNext ==
    \/ WsAccept
    \/ WsReceiveMalformed
    \/ WsReceiveNotObject
    \/ WsThrottleFrame
    \/ WsFailFrame
    \/ WsProcessFrame
    \/ WsDisconnect

Spec == Init /\ [][Next]_vars

(***************************************************************************)
(* _analyze_obstacles on frames crowded with obstacles: more detections in *)
(* the path than the three it returns.                                     *)
(***************************************************************************)
MaxObstacles == 4

ObstacleFrame ==
    <<640, 480>>

\* detections in the path, of differing distance and threat
ObstacleCandidates ==
    { Detection("chair", 90, BoxAt(ObstacleFrame, 3, 4, 8, 10, 0)),   \* very close, high
      Detection("person", 90, BoxAt(ObstacleFrame, 3, 2, 4, 9, 0)),   \* very close, low
      Detection("bench", 90, BoxAt(ObstacleFrame, 2, 4, 4, 7, 0)),    \* close, low
      Detection("dining table", 90, BoxAt(ObstacleFrame, 0, 4, 6, 6, 0)),  \* medium, medium
      Detection("couch", 90, BoxAt(ObstacleFrame, 0, 2, 7, 5, 0)) }   \* far, high

ObstacleInit ==
    /\ frame = ObstacleFrame
    /\ objects \in SeqsUpTo(ObstacleCandidates, MaxObstacles)
    /\ question = ""
    /\ hashseed \in HashSeeds
    /\ result = NoCall
    /\ prev = NoCall
    /\ session = NoSession

ObstacleNext ==
    CallAnalyzeObstacles

ObstacleSpec == ObstacleInit /\ [][ObstacleNext]_vars

WsSpec == WsInit /\ [][WsNext]_vars

(***************************************************************************)
(* _free_path_direction on boxes whose edges are multiples of 1/32 of the  *)
(* width of a 640-pixel frame.  On these every float the function forms    *)
(* (x / 640, the differences, sums and halves of such quotients) is exact, *)
(* and none lies on a threshold (0.01, 0.05, 0.06, 0.15, 0.3), so the      *)
(* rationals of the model are the function's floats, ties included.        *)
(***************************************************************************)
MaxBoxes == 3

FreePathFrame ==
    <<640, 480>>

\* the horizontal extents <<x1, x2>> of the boxes
GridExtents ==
    { <<0, 640>>,       \* the whole width
      <<20, 640>>,      \* all but a sliver on the left
      <<0, 620>>,       \* all but a sliver on the right
      <<160, 480>>,     \* the middle half: equal gaps on both sides
      <<-40, 240>>,     \* the left, reaching out of the frame
      <<400, 640>>,     \* the right
      <<80, 200>>,      \* inside the left half
      <<0, 320>> }      \* the left half

GridCandidates ==
    {Detection("chair", 90, <<x[1], 96, x[2], 384>>) : x \in GridExtents}
        \cup {Detection("chair", 90, <<>>)}

\* the frame seen in a mirror: (x1, x2) becomes (width - x2, width - x1)
Mirror(objs, img_width) ==
    [i \in DOMAIN objs |->
        IF objs[i].bbox = <<>> THEN objs[i]
        ELSE [objs[i] EXCEPT !.bbox = <<img_width - @[3], @[2], img_width - @[1], @[4]>>]]

\* the locals of _free_path_direction when it returns: the merged intervals,
\* the gaps and the widest gap (None where the function has none)
FreePathLocals(objs, img_width) ==
    LET intervals == FreePathIntervals(objs, img_width)
    IN  IF intervals = <<>>
        THEN [intervals |-> intervals, merged |-> <<>>, gaps |-> <<>>, widest |-> None]
        ELSE LET merged == MergeIntervals(SortIntervals(intervals), img_width)
                 gaps == FindGaps(merged, img_width)
             IN  [intervals |-> intervals, merged |-> merged, gaps |-> gaps,
                  widest |-> IF gaps = <<>> THEN None ELSE <<WidestGap(gaps)>>]

FreePathInit ==
    /\ frame = FreePathFrame
    /\ objects \in SeqsUpTo(GridCandidates, MaxBoxes)
    /\ question = ""
    /\ hashseed \in HashSeeds
    /\ result = NoCall
    /\ prev = NoCall
    /\ session = NoSession

\* _free_path_direction on the frame, its locals kept with the return value
CallFreePathOnGrid ==
    /\ result = NoCall
    /\ result' = [fn |-> "_free_path_direction",
                  ret |-> FreePathDirection(objects, frame[1]),
                  locals |-> FreePathLocals(objects, frame[1])]
    /\ prev' = NoCall
    /\ UNCHANGED <<frame, objects, question, hashseed, session>>

\* the frame is mirrored and _free_path_direction called on it again
CallFreePathOnMirror ==
    /\ result.fn = "_free_path_direction"
    /\ prev = NoCall
    /\ objects' = Mirror(objects, frame[1])
    /\ result' = [fn |-> "_free_path_direction",
                  ret |-> FreePathDirection(objects', frame[1]),
                  locals |-> FreePathLocals(objects', frame[1])]
    /\ prev' = result
    /\ UNCHANGED <<frame, question, hashseed, session>>

FreePathNext ==
    \/ CallFreePathOnGrid
    \/ CallFreePathOnMirror

FreePathSpec == FreePathInit /\ [][FreePathNext]_vars

(***************************************************************************)
(* _extract_targets on questions of a few words: keywords in either case   *)
(* and with punctuation, repeated, too short, stop words, and marks alone. *)
(***************************************************************************)
MaxWords == 4

Words ==
    {"the", "Cup", "cup?", "TV", "door.", "bag;", "chair!", "!?"}

QueryInit ==
    /\ frame = FreePathFrame
    /\ objects = <<>>
    /\ question \in {Join(" ", ws) : ws \in SeqsUpTo(Words, MaxWords)}
    /\ hashseed \in HashSeeds
    /\ result = NoCall
    /\ prev = NoCall
    /\ session = NoSession

QueryNext ==
    CallExtractTargets

QuerySpec == QueryInit /\ [][QueryNext]_vars

(***************************************************************************)
(* _focused_description on scenes of a few detections: priority labels of  *)
(* every group on either side, a label ending in 's', and other labels.    *)
(***************************************************************************)
MaxLabels == 3

SceneCandidates ==
    { Detection("person", 90, <<0, 96, 200, 384>>),      \* left
      Detection("person", 90, <<440, 96, 640, 384>>),    \* right
      Detection("person", 90, <<>>),                     \* no box: center
      Detection("bus", 90, <<0, 96, 200, 384>>),         \* left
      Detection("dog", 90, <<440, 96, 640, 384>>),       \* right
      Detection("chair", 90, <<220, 96, 420, 384>>),     \* center
      Detection("cup", 90, <<220, 96, 420, 384>>) }      \* no priority label

SceneInit ==
    /\ frame = FreePathFrame
    /\ objects \in SeqsUpTo(SceneCandidates, MaxLabels)
    /\ question = ""
    /\ hashseed \in HashSeeds
    /\ result = NoCall
    /\ prev = NoCall
    /\ session = NoSession

SceneNext ==
    CallFocusedDescription

SceneSpec == SceneInit /\ [][SceneNext]_vars

(***************************************************************************)
(* _compute_guidance on questions that name nothing in view, on frames     *)
(* with several obstacles near the walker: the fallback instruction.       *)
(***************************************************************************)
MaxNear == 3

NearCandidates ==
    { Detection("chair", 90, BoxAt(FreePathFrame, 3, 4, 8, 10, 0)),   \* very close, center
      Detection("person", 90, BoxAt(FreePathFrame, 2, 4, 4, 7, 0)),   \* close, left
      Detection("bench", 90, BoxAt(FreePathFrame, 6, 4, 8, 7, 0)),    \* close, right
      Detection("couch", 90, BoxAt(FreePathFrame, 0, 2, 7, 5, 0)),    \* far
      Detection("dining table", 90, BoxAt(FreePathFrame, 0, 5, 10, 10, 0)) }  \* the whole width

NearQueries ==
    {"", "find the door"}

NearInit ==
    /\ frame = FreePathFrame
    /\ objects \in SeqsUpTo(NearCandidates, MaxNear)
    /\ question \in NearQueries
    /\ hashseed \in HashSeeds
    /\ result = NoCall
    /\ prev = NoCall
    /\ session = NoSession

NearNext ==
    \/ CallComputeGuidance
    \/ Restart

NearSpec == NearInit /\ [][NearNext]_vars

(***************************************************************************)
(* POST /guide (real_time_guidance): the response built from the engine's  *)
(* guidance, on frames whose target stands close to straight ahead.        *)
(***************************************************************************)
MaxTargets == 2

GuideFrame ==
    <<640, 480>>

\* a detection 200 px wide whose centre lies off pixels right of the middle
GuideBox(off) ==
    <<220 + off, 96, 420 + off, 384>>

\* the detections kept by the handler (confidence > 0.35): persons at
\* 0.0, 1.9, 2.0, 2.1, -2.0, -2.1 and 9.4 degrees, one without a box, a chair
GuideCandidates ==
    { Detection("person", 90, GuideBox(off)) : off \in {0, 20, 21, 22, -21, -22, 100} }
        \cup { Detection("person", 90, <<>>),
               Detection("chair", 90, <<120, 240, 520, 480>>) }

GuideQueries ==
    {"where is the person", ""}

\* the text appended to the instruction for non-empty navigation data; the
\* degree sign is written "deg"
PreciseSuffix(nav_data) ==
    IF nav_data = EmptyDict THEN ""
    ELSE
        LET angle == nav_data.angle_degrees
            distance_m == nav_data.distance_meters
        IN  IF Abs(angle) > 20
            THEN " [Precise: " \o FormatTenths(Abs(angle)) \o "deg "
                     \o (IF angle < 0 THEN "left" ELSE "right") \o ", "
                     \o FormatTenths(distance_m) \o "m]"
            ELSE " [Precise: straight ahead, " \o FormatTenths(distance_m) \o "m]"

\* response_data, as GuideResponse returns it
RealTimeGuidance(objs, focused, guidance) ==
    [target |-> guidance.target,
     direction |-> guidance.direction,
     distance |-> guidance.distance,
     confidence |-> guidance.confidence,
     instruction |-> guidance.instruction \o PreciseSuffix(guidance.navigation_data),
     scene_description |-> focused,
     objects |-> objs,
     obstacles |-> guidance.obstacles]

GuideInit ==
    /\ frame = GuideFrame
    /\ objects \in SeqsUpTo(GuideCandidates, MaxTargets)
    /\ question \in GuideQueries
    /\ hashseed \in HashSeeds
    /\ result = NoCall
    /\ prev = NoCall
    /\ session = NoSession

\* One request served: the engine's guidance is kept beside the response.
\* An exception of the engine is answered with status 500.
CallGuide ==
    /\ result.fn \in {"none", "/guide"}
    /\ \E focused \in {FocusedDescription(objects)},
          guidance \in {ComputeGuidance(objects, question, frame[1], frame[2], hashseed)} :
           result' = [fn |-> "/guide",
                      guidance |-> guidance,
                      ret |-> IF Raised(guidance)
                              THEN [raised |-> "HTTPException", status_code |-> 500]
                              ELSE RealTimeGuidance(objects, focused, guidance)]
    /\ prev' = NoCall
    /\ UNCHANGED <<frame, objects, question, hashseed, session>>

\* A request that ends before detection: no model loaded, or a file that is
\* no image.
GuideRejects ==
    /\ result.fn \in {"none", "/guide"}
    /\ \E detail \in {"Detection model not loaded", "cannot identify image file"} :
           result' = [fn |-> "/guide",
                      guidance |-> [raised |-> detail],
                      ret |-> [raised |-> "HTTPException", status_code |-> 500]]
    /\ prev' = NoCall
    /\ UNCHANGED <<frame, objects, question, hashseed, session>>

GuideNext ==
    \/ CallGuide
    \/ GuideRejects

GuideSpec == GuideInit /\ [][GuideNext]_vars

(***************************************************************************)
(* Properties of the engine.                                               *)
(***************************************************************************)
Terminal == {".", "!", "?"}

\* the last call was _compute_guidance and it returned a result
Returned ==
    result.fn = "_compute_guidance" /\ ~Raised(result.ret)

\* the matched target set of _compute_guidance for the frame and question
TargetSet(objs, q) ==
    LET targets == ExtractTargets(q)
        hit == FirstMatching(objs, targets)
    IN  IF hit = 0 THEN <<>> ELSE Matches(objs, targets[hit])

\* C1: for every detection list, also one holding a detection whose box is
\* missing or has zero height or zero width, _compute_guidance returns a
\* result and never raises.
C1_NeverRaises ==
    result.fn = "_compute_guidance" => ~Raised(result.ret)

\* C2: the instruction returned by _compute_guidance ends with '.', '!' or
\* '?', on the precise path (full instruction plus caution clause) and on the
\* fallback path (phrase, obstacle clause, low-confidence caveat).
C2_TerminalPunctuation ==
    Returned => EndsWithAny(result.ret.instruction, Terminal)

\* a fallback instruction carrying the obstacle clause and the caveat
C2_Witness ==
    /\ Returned
    /\ result.ret.navigation_data = EmptyDict
    /\ Contains(result.ret.instruction, ". Watch for ")
    /\ Contains(result.ret.instruction, "double check")

\* every entry of obstacles is the entry of a detection outside target_objs,
\* and is the entry of no boxed detection of target_objs
NoTargetAmong(obstacles, objs, target_objs, img_width, img_height) ==
    \A k \in DOMAIN obstacles :
        /\ \E i \in DOMAIN objs :
               /\ ~InList(objs[i], target_objs)
               /\ objs[i].bbox # <<>>
               /\ obstacles[k] = ObstacleEntry(objs[i], img_width, img_height)
        /\ \A j \in DOMAIN target_objs :
               target_objs[j].bbox # <<>>
                   => obstacles[k] # ObstacleEntry(target_objs[j], img_width, img_height)

\* C3: no entry of the obstacles returned by _compute_guidance, or by
\* _analyze_obstacles for any objects / target_objs pair, corresponds to a
\* detection of the matched target set.
C3_ObstaclesExcludeTargets ==
    /\ result.fn = "_analyze_obstacles"
           => NoTargetAmong(result.ret, objects, result.target_objs,
                            frame[1], frame[2])
    /\ Returned
           => NoTargetAmong(result.ret.obstacles, objects,
                            TargetSet(objects, question), frame[1], frame[2])

\* _compute_guidance reported an obstacle while a matched target sits in the
\* walking path and would, but for its exclusion, be an obstacle itself
C3_Witness ==
    /\ Returned
    /\ result.ret.obstacles # <<>>
    /\ \E j \in DOMAIN TargetSet(objects, question) :
           IsObstacle(TargetSet(objects, question)[j], <<>>, frame[1], frame[2])

FreePathLabels ==
    {"center", "slightly left", "left", "hard left",
     "slightly right", "right", "hard right"}

\* C4: _free_path_direction always returns a direction among center,
\* slightly/plain/hard left and slightly/plain/hard right, whether there are no
\* intervals, a meaningful gap, or no meaningful gap.
C4_FreePathAlwaysDirects ==
    result.fn = "_free_path_direction"
        => /\ ~Raised(result.ret)
           /\ result.ret.direction \in FreePathLabels

\* the frame is covered from edge to edge: intervals, but no gap
C4_Witness ==
    /\ result.fn = "_free_path_direction"
    /\ FreePathIntervals(objects, frame[1]) # <<>>
    /\ result.ret.confidence = Conf(30, 1)
    /\ result.ret.direction \in {"left", "right"}

\* C5: two calls of _compute_guidance on identical detections, query and
\* frame dimensions return identical output, in one run and across runs.
C5_Deterministic ==
    (result.fn = "_compute_guidance" /\ prev.fn = "_compute_guidance")
        => result.ret = prev.ret

\* the detection {person, 0.9} whose box is large and covers the
\* bottom-centre of the frame
LargePerson ==
    Detection("person", 90, BoxAt(frame, 2, 1, 8, 10, 0))

\* _compute_guidance was called on that single detection with the query
\* "where is the person"
C6_Scenario ==
    /\ objects = <<LargePerson>>
    /\ question = "where is the person"
    /\ result.fn = "_compute_guidance"

CentredLargeLow(o) ==
    /\ ~NoBox(o)
    /\ o.bbox[1] + o.bbox[3] = frame[1]
    /\ 10 * (o.bbox[4] - o.bbox[2]) > 8 * frame[2]
    /\ 10 * o.bbox[4] > 7 * frame[2]

\* C7: _direction_for_targets on a single target centred on the frame centre,
\* large and low in the frame returns turn label 'straight' and a distance
\* label beginning with "very close".
C7_CentredLargeLowIsVeryClose ==
    ( /\ result.fn = "_direction_for_targets"
      /\ Len(result.target_objs) = 1
      /\ CentredLargeLow(result.target_objs[1]) )
        => /\ ~Raised(result.ret)
           /\ result.ret.direction = "straight"
           /\ StartsWith(result.ret.distance, "very close")

\* _calculate_precise_position was called on a detection with a valid box
\* and returned a position
C8_Positioned ==
    /\ result.fn = "_calculate_precise_position"
    /\ ~NoBox(result.obj)
    /\ ~Raised(result.ret)

\* 2 * (center_x - frame_center_x) of the positioned detection, in pixels
C8_Offset2 ==
    result.obj.bbox[1] + result.obj.bbox[3] - frame[1]

\* C8 as claimed: the angle is < 0 whenever the box centre is left of the
\* frame centre by any amount, > 0 whenever it is right of it, and 0 exactly
\* when it is centred.
C8_AngleSign ==
    C8_Positioned
        => /\ C8_Offset2 < 0 => result.ret.angle < 0
           /\ C8_Offset2 > 0 => result.ret.angle > 0
           /\ C8_Offset2 = 0 <=> result.ret.angle = 0

\* C8 as amended: the angle, rounded to a tenth of a degree, is <= 0 when the
\* box centre is left of the frame centre, >= 0 when it is right of it and 0
\* when it is centred; it is < 0 (> 0) once the centre is at least a tenth of
\* a degree, img_width / 600 pixels, left (right) of the frame centre.
C8_AngleSignAmended ==
    C8_Positioned
        => /\ C8_Offset2 < 0 => result.ret.angle <= 0
           /\ C8_Offset2 > 0 => result.ret.angle >= 0
           /\ C8_Offset2 = 0 => result.ret.angle = 0
           /\ 300 * C8_Offset2 <= -frame[1] => result.ret.angle < 0
           /\ 300 * C8_Offset2 >= frame[1] => result.ret.angle > 0

\* a box whose centre is left of the frame centre and whose angle rounds to 0
C8_Witness ==
    /\ C8_Positioned
    /\ C8_Offset2 < 0
    /\ result.ret.angle = 0

\* label in keyword or keyword in label, case-insensitively
BidirectionalMatches(objs, t) ==
    SelectSeq(objs, LAMBDA o : \/ Contains(Lower(o.name), t)
                               \/ Contains(t, Lower(o.name)))

\* C9: in _compute_guidance a detection matches a keyword when the keyword is
\* a substring of the label or the label a substring of the keyword, case
\* ignored; the target is the first keyword with a match and the target set
\* holds every detection matching it.
C9_BidirectionalMatch ==
    Returned
        => LET targets == ExtractTargets(question)
               hits == {i \in DOMAIN targets :
                            BidirectionalMatches(objects, targets[i]) # <<>>}
           IN  IF hits = {}
               THEN result.ret.target = Some("path")
               ELSE LET first == CHOOSE i \in hits : \A j \in hits : i <= j
                    IN  /\ result.ret.target = Some(targets[first])
                        /\ result.ret.target_count
                               = Len(BidirectionalMatches(objects, targets[first]))

\* the gaps _free_path_direction finds for the frame
C10_Gaps ==
    LET intervals == FreePathIntervals(objects, frame[1])
    IN  IF intervals = <<>> THEN <<>>
        ELSE FindGaps(MergeIntervals(SortIntervals(intervals), frame[1]), frame[1])

\* C10: when the merged intervals leave a gap wider than 0.05,
\* _free_path_direction takes its direction from the centre of a gap of
\* maximum width; detections occupying [0, 0.3] and [0.7, 1.0] of the width
\* give the gap [0.3, 0.7], centre 0.5, direction 'center'.
C10_WidestGapDecides ==
    (result.fn = "_free_path_direction" /\ C10_Gaps # <<>>)
        => /\ ~Raised(result.ret)
           /\ \E i \in DOMAIN C10_Gaps :
                  /\ \A j \in DOMAIN C10_Gaps :
                         C10_Gaps[j][2] - C10_Gaps[j][1] <= C10_Gaps[i][2] - C10_Gaps[i][1]
                  /\ result.ret.direction
                         = GapDirection(C10_Gaps[i][1] + C10_Gaps[i][2] - frame[1], frame[1])
           /\ ( /\ Len(objects) = 2
                /\ \E a, b \in {1, 2} :
                       /\ objects[a].bbox = BoxAt(frame, 0, 2, 3, 10, 0)
                       /\ objects[b].bbox = BoxAt(frame, 7, 2, 10, 10, 0) )
                  => /\ C10_Gaps = <<<<(3 * frame[1]) \div 10, (7 * frame[1]) \div 10>>>>
                     /\ result.ret.direction = "center"

\* the two detections at [0, 0.3] and [0.7, 1.0] were given to
\* _free_path_direction
C10_Witness ==
    /\ result.fn = "_free_path_direction"
    /\ Len(objects) = 2
    /\ objects[1].bbox = BoxAt(frame, 0, 2, 3, 10, 0)
    /\ objects[2].bbox = BoxAt(frame, 7, 2, 10, 10, 0)
    /\ result.ret.direction = "center"

\* no detection of the frame projects a non-degenerate interval: every box is
\* missing or has zero width once clipped to the frame
NoInterval ==
    \A i \in DOMAIN objects :
        \/ objects[i].bbox = <<>>
        \/ Max(0, Min(frame[1], objects[i].bbox[3]))
               <= Max(0, Min(frame[1], objects[i].bbox[1]))

\* C11: on an empty detection list _focused_description returns exactly
\* "No clear objects ahead. Path may be open."; _free_path_direction returns
\* direction 'center' with distance 'clear' on an empty list and whenever no
\* detection projects a non-degenerate interval.
C11_EmptyIsClear ==
    /\ (result.fn = "_focused_description" /\ objects = <<>>)
           => result.ret = "No clear objects ahead. Path may be open."
    /\ (result.fn = "_free_path_direction" /\ NoInterval)
           => /\ result.ret.direction = "center"
              /\ result.ret.distance = "clear"

\* _free_path_direction was given detections, none of which projects an interval
C11_Witness ==
    /\ result.fn = "_free_path_direction"
    /\ objects # <<>>
    /\ NoInterval
    /\ \E i \in DOMAIN objects : objects[i].bbox # <<>>

DistanceLabels ==
    {"very close", "close", "medium", "far", "very far", "unknown"}

\* C12: for every detection and frame height _estimate_distance returns one
\* of the six labels very close, close, medium, far, very far, unknown.
C12_SixLabels ==
    result.fn = "_estimate_distance" => result.ret \in DistanceLabels

\* a boxed detection was classified in the middle of the scale
C12_Witness ==
    /\ result.fn = "_estimate_distance"
    /\ ~NoBox(result.obj)
    /\ result.ret = "medium"

\* a box that is missing or encloses no area
Degenerate(o) ==
    \/ NoBox(o)
    \/ o.bbox[4] - o.bbox[2] <= 0
    \/ o.bbox[3] - o.bbox[1] <= 0

\* C16: _estimate_distance returns 'unknown' for every detection whose box is
\* missing or degenerate, a four-coordinate box of zero height included.
C16_DegenerateIsUnknown ==
    (result.fn = "_estimate_distance" /\ Degenerate(result.obj))
        => result.ret = "unknown"

\* some extracted keyword is a substring of some detection's lower-cased label
KeywordMatched ==
    \E i \in DOMAIN ExtractTargets(question) :
        \E k \in DOMAIN objects :
            Contains(Lower(objects[k].name), ExtractTargets(question)[i])

\* C13: in every result of _compute_guidance the navigation detail is
\* non-empty, with angle_degrees, distance_meters and coordinates, exactly when
\* an extracted keyword matched a detection; when none matched, the result is
\* the free-path result, target is "path", the navigation detail is empty and
\* the instruction is the one of _path_smoothing_instruction.
C13_NavigationOnPrecisePathOnly ==
    Returned
        => LET ret == result.ret
               open_path == FreePathDirection(objects, frame[1])
           IN  /\ (DOMAIN ret.navigation_data # {}) <=> KeywordMatched
               /\ KeywordMatched
                      => {"angle_degrees", "distance_meters", "coordinates"}
                             \subseteq DOMAIN ret.navigation_data
               /\ ~KeywordMatched
                      => /\ ret.target = Some("path")
                         /\ DOMAIN ret.navigation_data = {}
                         /\ ret.direction = open_path.direction
                         /\ ret.distance = open_path.distance
                         /\ ret.confidence = open_path.confidence
                         /\ \E seed \in HashSeeds :
                                ret.instruction
                                    = PathSmoothingInstruction(
                                          open_path, ret.obstacles, Some("path"), seed)

\* a keyword after the first one matched, and the precise path was taken
C13_Witness ==
    /\ Returned
    /\ KeywordMatched
    /\ Matches(objects, ExtractTargets(question)[1]) = <<>>
    /\ DOMAIN result.ret.navigation_data # {}

\* the label the thresholds 0.06, 0.15 and 0.3 give the offset rel (thousandths)
C17_Label(rel) ==
    LET side == IF rel < 0 THEN "left" ELSE "right"
    IN  IF Abs(rel) < 60 THEN "center"
        ELSE IF Abs(rel) < 150 THEN "slightly " \o side
        ELSE IF Abs(rel) < 300 THEN side
        ELSE "hard " \o side

\* C17: for the widest gap's centre offset rel, _free_path_direction returns
\* 'center' iff |rel| < 0.06, 'slightly left/right' iff 0.06 <= |rel| < 0.15,
\* 'left/right' iff 0.15 <= |rel| < 0.3 and 'hard left/right' iff |rel| >= 0.3,
\* also at the boundary values 0.06, 0.15 and 0.3.
C17_ThresholdLabels ==
    result.fn = "gap_direction" => result.ret = C17_Label(result.rel)

\* 0-based rank of a distance label in the order very close < close < medium
\* < far < very far < unknown
C18_Rank(d) ==
    CHOOSE r \in 0..5 :
        <<"very close", "close", "medium", "far", "very far", "unknown">>[r + 1] = d

\* C18: whenever a detection projects an interval, the distance attached by
\* the free-path fallback inside _compute_guidance is the closest-ranked
\* label among the _estimate_distance outputs of all detections, each computed
\* against the frame height passed to _compute_guidance.
C18_NearestAgainstFrameHeight ==
    (Returned /\ ~KeywordMatched /\ ~NoInterval)
        => \E i \in DOMAIN objects :
               /\ result.ret.distance = EstimateDistance(objects[i], frame[2])
               /\ \A j \in DOMAIN objects :
                      C18_Rank(EstimateDistance(objects[i], frame[2]))
                          <= C18_Rank(EstimateDistance(objects[j], frame[2]))

\* four coordinates and a height that is not zero
C19_ValidBox(o) ==
    ~NoBox(o) /\ o.bbox[4] # o.bbox[2]

\* _direction_for_targets was called on a non-empty list of candidates with
\* valid boxes
C19_Called ==
    /\ result.fn = "_direction_for_targets"
    /\ result.target_objs # <<>>
    /\ \A i \in DOMAIN result.target_objs : C19_ValidBox(result.target_objs[i])

\* C19: for every non-empty list of candidates with valid boxes, the angle,
\* distance and coordinates _direction_for_targets reports are those of a
\* candidate of minimal estimated distance, and the confidence is the mean of
\* all candidates' confidences, hence within [0, 1].
C19_NearestCandidateMeanConfidence ==
    C19_Called
        => LET t == result.target_objs
               pos == [i \in DOMAIN t |->
                          CalculatePrecisePosition(t[i], frame[1], frame[2])]
               nav == result.ret.navigation
               conf == result.ret.confidence
           IN  /\ ~Raised(result.ret)
               /\ \E i \in DOMAIN t :
                      /\ \A j \in DOMAIN t :
                             pos[i].distance_meters <= pos[j].distance_meters
                      /\ nav.angle_degrees = pos[i].angle
                      /\ nav.distance_meters = pos[i].distance_meters
                      /\ nav.coordinates = pos[i].coordinates
               /\ conf.den > 0
               /\ conf.num * Len(t) = conf.den * Sum([i \in DOMAIN t |-> t[i].confidence])
               /\ 0 <= conf.num /\ conf.num <= 100 * conf.den

\* two candidates, the second one nearer than the first, and it was reported
C19_Witness ==
    /\ C19_Called
    /\ Len(result.target_objs) = 2
    /\ result.target_objs[1].confidence # result.target_objs[2].confidence
    /\ CalculatePrecisePosition(result.target_objs[2], frame[1], frame[2]).distance_meters
           < CalculatePrecisePosition(result.target_objs[1], frame[1], frame[2]).distance_meters
    /\ result.ret.navigation.distance_meters
           = CalculatePrecisePosition(result.target_objs[2], frame[1], frame[2]).distance_meters


\* a step of the session in which a frame was processed in full
FrameProcessed ==
    /\ session.state = "open"
    /\ session'.state = "open"
    /\ session'.clock # session.clock
    /\ session'.out.kind = "payload"

\* C14: in a /ws/guide session any two frames processed in full were received
\* at least throttle_seconds apart: a frame received sooner than that after
\* the previous processed frame is answered as throttled, not processed.
C14_MinimumProcessingInterval ==
    [][(FrameProcessed /\ session.processed # None)
          => session'.clock - session.processed[1] >= throttle_seconds]_vars

\* C15: a processed frame's payload carries a non-empty instruction only if
\* the computed instruction differs from the last instruction sent or more
\* than instruction_repeat_sec have passed since it was sent, and the empty
\* string otherwise; two consecutive non-empty transmissions of the same text
\* are more than instruction_repeat_sec apart.
C15_RepeatsOnlyAfterInterval ==
    [][FrameProcessed =>
          LET computed == result'.ret.instruction
              payload == session'.out
              now == session'.clock
              differs == \/ session.sent = None
                         \/ session.sent[1].text # computed
              elapsed == /\ session.sent # None
                         /\ now - session.sent[1].time > instruction_repeat_sec
          IN  /\ payload.instruction # "" => (differs \/ elapsed)
              /\ ~(differs \/ elapsed) => payload.instruction = ""
              /\ ( /\ payload.instruction # ""
                   /\ session.sent # None
                   /\ session.sent[1].text = payload.instruction )
                    => now - session.sent[1].time > instruction_repeat_sec]_vars

\* an instruction was transmitted again, unchanged, after the interval
C15_Witness ==
    /\ session.state = "open"
    /\ session.out.kind = "payload"
    /\ session.out.instruction # ""
    /\ session.out.ts = session.clock
    /\ session.sent # None
    /\ session.sent[1].repeats
    /\ session.sent[1].time = session.clock


\* the position of x in a list of distinct labels
C20_Position(labels, x) ==
    CHOOSE i \in DOMAIN labels : labels[i] = x

\* entry a ranks strictly before entry b: nearer, or as near and more of a threat
C20_Before(a, b) ==
    LET distances == <<"very close", "close", "medium", "far", "very far">>
        threats == <<"high", "medium", "low">>
        da == C20_Position(distances, a.distance)
        db == C20_Position(distances, b.distance)
    IN  \/ da < db
        \/ da = db /\ C20_Position(threats, a.threat) < C20_Position(threats, b.threat)

\* the entries of the obstacles _analyze_obstacles retained, in detection order
C20_Retained ==
    LET kept == SelectSeq(objects,
                          LAMBDA o : IsObstacle(o, result.target_objs,
                                                frame[1], frame[2]))
    IN  [i \in DOMAIN kept |-> ObstacleEntry(kept[i], frame[1], frame[2])]

\* how often e occurs in a list
C20_Count(list, e) ==
    Cardinality({i \in DOMAIN list : list[i] = e})

\* C20: _analyze_obstacles returns at most 3 entries, the first of the
\* retained obstacles ordered by distance rank, then threat rank: the list is
\* non-decreasing in that order, and no retained obstacle that was dropped
\* ranks strictly before one that was returned.
C20_FirstThreeByRank ==
    result.fn = "_analyze_obstacles" =>
        LET ret == result.ret
            retained == C20_Retained
        IN  /\ Len(ret) <= 3
            /\ Len(ret) = Min(3, Len(retained))
            /\ \A i \in DOMAIN ret :
                   C20_Count(ret, ret[i]) <= C20_Count(retained, ret[i])
            /\ \A i, j \in DOMAIN ret : i < j => ~C20_Before(ret[j], ret[i])
            /\ \A k \in DOMAIN retained :
                   C20_Count(ret, retained[k]) < C20_Count(retained, retained[k])
                       => \A i \in DOMAIN ret : ~C20_Before(retained[k], ret[i])

\* four obstacles retained, three returned: two as near as each other in order
\* of threat, then a farther one, and a still farther one dropped
C20_Witness ==
    /\ result.fn = "_analyze_obstacles"
    /\ Len(C20_Retained) > 3
    /\ Len(result.ret) = 3
    /\ result.ret[1].distance = result.ret[2].distance
    /\ result.ret[1].threat # result.ret[2].threat
    /\ result.ret[3].distance # result.ret[2].distance
    /\ \E k \in DOMAIN C20_Retained : C20_Before(result.ret[3], C20_Retained[k])

\* the width of [from, to) that the intervals cover, counted pixel column by
\* pixel column
C21_Covered(intervals, from, to) ==
    Cardinality({p \in from..(to - 1) :
                    \E i \in DOMAIN intervals :
                        intervals[i][1] <= p /\ p < intervals[i][2]})

\* _free_path_direction returned with intervals and without a gap
C21_NoGap ==
    /\ result.fn = "_free_path_direction"
    /\ result.locals.intervals # <<>>
    /\ result.locals.gaps = <<>>

\* C21: when the merged intervals leave no gap wider than 0.05,
\* _free_path_direction returns the side of the 0.5 midline the merged
\* intervals cover less: 'left' when the left coverage is the lesser, 'right'
\* when the right coverage is the lesser, never 'center'.
C21_LighterSide ==
    C21_NoGap =>
        LET half == frame[1] \div 2
            left == C21_Covered(result.locals.merged, 0, half)
            right == C21_Covered(result.locals.merged, half, frame[1])
        IN  /\ left < right => result.ret.direction = "left"
            /\ right < left => result.ret.direction = "right"
            /\ result.ret.direction # "center"

\* all but a sliver on the left is covered: 'left'
C21_Witness ==
    /\ C21_NoGap
    /\ C21_Covered(result.locals.merged, 0, frame[1] \div 2)
           < C21_Covered(result.locals.merged, frame[1] \div 2, frame[1])
    /\ result.ret.direction = "left"

\* the whitespace-separated tokens of the question, lower-cased and with the
\* marks ? . , ! stripped from both ends (other marks stay part of a token)
C22_Tokens ==
    LET raw == Split(question)
    IN  [i \in DOMAIN raw |-> Strip(Lower(raw[i]), {"?", ".", ",", "!"})]

\* the positions of the keywords among the tokens: those longer than two
\* characters that are no stop word and appear there for the first time
C22_Firsts(tokens) ==
    {i \in DOMAIN tokens :
        /\ Len(tokens[i]) > 2
        /\ tokens[i] \notin StopWords
        /\ \A j \in 1..(i - 1) : tokens[j] # tokens[i]}

RECURSIVE SplitOn(_, _, _, _)
\* the parts of s between the occurrences of sep
SplitOn(s, sep, cur, acc) ==
    IF s = "" THEN Append(acc, cur)
    ELSE IF Len(s) >= Len(sep) /\ SubSeq(s, 1, Len(sep)) = sep
         THEN SplitOn(SubSeq(s, Len(sep) + 1, Len(s)), sep, "", Append(acc, cur))
         ELSE SplitOn(Tail(s), sep, cur \o SubSeq(s, 1, 1), acc)

\* the group of priority_order a label belongs to: 0 when it is in none
C23_Group(label) ==
    IF \E g \in DOMAIN priority_order : label \in Range(priority_order[g])
    THEN CHOOSE g \in DOMAIN priority_order : label \in Range(priority_order[g])
    ELSE 0

\* how many detections carry the label, and how many of them in a third
C23_Count(label) ==
    Cardinality({i \in DOMAIN objects : objects[i].name = label})

C23_CountAt(label, pos) ==
    Cardinality({i \in DOMAIN objects :
                    objects[i].name = label /\ HorizPos(objects[i]) = pos})

\* _focused_description was called on a scene with a priority label
C23_Described ==
    /\ result.fn = "_focused_description"
    /\ \E i \in DOMAIN objects : C23_Group(objects[i].name) # 0

\* C23: on a scene with a priority label _focused_description emits its
\* phrases in the group order person, vehicles, pets, furniture; a label is
\* described at most once, with a third in which its count is highest, and
\* with a plural 's' only when its count is > 1 and it does not end in 's'.
C23_PriorityPhrases ==
    C23_Described =>
        LET texts == SplitOn(result.ret, "; ", "", <<>>)
            phrases == [k \in DOMAIN texts |-> SplitOn(texts[k], " ", "", <<>>)]
            labels == {objects[i].name : i \in DOMAIN objects}
            \* the label a phrase describes: its noun, or its noun less an 's'
            LabelOf(ph) ==
                IF ph[2] \in labels /\ C23_Count(ph[2]) = 1 THEN ph[2]
                ELSE IF ph[2] \in labels /\ EndsWithAny(ph[2], {"s"}) THEN ph[2]
                ELSE SubSeq(ph[2], 1, Len(ph[2]) - 1)
        IN  /\ Len(texts) >= 1
            /\ \A k \in DOMAIN phrases :
                   LET ph == phrases[k]
                   IN  /\ Len(ph) = 3
                       /\ LabelOf(ph) \in labels
                       /\ C23_Group(LabelOf(ph)) # 0
                       /\ ph[1] = IntToStr(C23_Count(LabelOf(ph)))
                       /\ ph[3] \in {"left", "center", "right"}
                       /\ \A pos \in {"left", "center", "right"} :
                              C23_CountAt(LabelOf(ph), pos)
                                  <= C23_CountAt(LabelOf(ph), ph[3])
                       /\ ph[2] = LabelOf(ph) \o "s"
                              <=> ( /\ C23_Count(LabelOf(ph)) > 1
                                    /\ ~EndsWithAny(LabelOf(ph), {"s"}) )
                       /\ ph[2] \in {LabelOf(ph), LabelOf(ph) \o "s"}
            /\ \A k, l \in DOMAIN phrases :
                   k < l => /\ LabelOf(phrases[k]) # LabelOf(phrases[l])
                            /\ C23_Group(LabelOf(phrases[k]))
                                   <= C23_Group(LabelOf(phrases[l]))

\* three persons, the first seen on the right and two on the left:
\* "3 persons left"
C23_Witness ==
    /\ C23_Described
    /\ Len(objects) = 3
    /\ HorizPos(objects[1]) = "right"
    /\ C23_CountAt("person", "left") = 2
    /\ result.ret = "3 persons left"

\* the text of s after the first occurrence of marker ("" when there is none)
TextAfter(s, marker) ==
    IF Contains(s, marker)
    THEN LET i == CHOOSE i \in 1..Len(s) :
                      /\ SubSeq(s, i, i + Len(marker) - 1) = marker
                      /\ \A j \in 1..(i - 1) : SubSeq(s, j, j + Len(marker) - 1) # marker
         IN  SubSeq(s, i + Len(marker), Len(s))
    ELSE ""

\* _compute_guidance returned the instruction of _path_smoothing_instruction
C24_Fallback ==
    /\ Returned
    /\ DOMAIN result.ret.navigation_data = {}

\* the obstacles of the result that are close or very close
C24_Near ==
    SelectSeq(result.ret.obstacles,
              LAMBDA obs : obs.distance = "very close" \/ obs.distance = "close")

\* the obstacles the caution clause of the instruction names
C24_Named ==
    LET clause == TextAfter(result.ret.instruction, ". Watch for ")
    IN  IF clause = "" THEN <<>>
        ELSE SplitOn(SplitOn(clause, ".", "", <<>>)[1], ", ", "", <<>>)

\* C24: on the fallback path the instruction carries the low-confidence
\* caveat exactly when the confidence is < 0.4; its caution clause names at
\* most 2 obstacles, each close or very close and each with its side, and
\* there is no clause when no obstacle is close or very close.
C24_CaveatAndCaution ==
    C24_Fallback =>
        LET ret == result.ret
            named == C24_Named
        IN  /\ Contains(ret.instruction, "I'm not fully sure")
                   <=> 10 * ret.confidence.num < 4 * 100 * ret.confidence.den
            /\ Len(named) <= 2
            /\ \A k \in DOMAIN named :
                   \E i \in DOMAIN ret.obstacles :
                       /\ ret.obstacles[i].distance \in {"very close", "close"}
                       /\ ret.obstacles[i].position \in {"left", "center", "right"}
                       /\ named[k] = ret.obstacles[i].name \o " "
                                         \o ret.obstacles[i].position
            /\ C24_Near = <<>> => ~Contains(ret.instruction, "Watch for")
            /\ C24_Near # <<>> => named # <<>>

\* three obstacles near, two of them named, and no gap to steer for: the
\* clause and the caveat together
C24_Witness ==
    /\ C24_Fallback
    /\ Len(C24_Near) = 3
    /\ Len(C24_Named) = 2
    /\ C24_Named[1] # C24_Named[2]
    /\ result.ret.confidence = Conf(30, 1)
    /\ Contains(result.ret.instruction, "I'm not fully sure")

\* C25: a /ws/guide session loop ends only when the client disconnects: a
\* malformed message (not JSON, JSON that is no object, an object without an
\* image, an image that does not decode) is answered with an error and the
\* loop goes on, the connection open and no exception uncaught.
C25_EndsOnlyOnDisconnect ==
    [][(session.state = "open" /\ session'.state = "closed")
          => session'.ended = "disconnect"]_vars

\* C28: in a /ws/guide session a message answered with an error, with
\* {"status": "throttled"} or with a payload whose instruction is suppressed
\* leaves last_instruction and last_sent_time as they were; the two change
\* only together, on a processed frame whose instruction is sent, to that
\* instruction and the time of that frame.
C28_LocalsChangeOnlyWhenSent ==
    [][(session.state = "open" /\ session'.state = "open")
          => LET sends == /\ FrameProcessed
                          /\ session'.out.instruction # ""
             IN  /\ ~sends => /\ session'.last_instruction = session.last_instruction
                              /\ session'.last_sent_time = session.last_sent_time
                 /\ sends => /\ session'.last_instruction
                                    = Some(session'.out.instruction)
                             /\ session'.last_sent_time = session'.clock
                             /\ session'.last_sent_time # session.last_sent_time]_vars

\* a frame was processed and its instruction suppressed: last_sent_time is
\* still the time of the transmission before it
C28_Witness ==
    /\ session.state = "open"
    /\ session.out.kind = "payload"
    /\ session.out.instruction = ""
    /\ session.out.ts = session.clock
    /\ session.sent # None
    /\ session.last_instruction = Some(session.sent[1].text)
    /\ session.last_sent_time = session.sent[1].time
    /\ session.last_sent_time < session.clock

\* C26: on the fallback path the base phrase of the instruction comes from
\* the phrase matrix cell of the (direction, distance) pair that
\* _free_path_direction returned; the catch-all phrase
\* "Move {direction} ({distance})." is never used.
C26_NeverCatchAll ==
    C24_Fallback =>
        LET ret == result.ret
            matrix == Variants("the clear path")
        IN  /\ ret.direction \in DOMAIN matrix
            /\ ret.distance \in DOMAIN matrix[ret.direction]
            /\ ~StartsWith(ret.instruction,
                           "Move " \o ret.direction \o " (" \o ret.distance \o ").")

\* /guide answered a request whose guidance carries navigation data
C27_Precise ==
    /\ result.fn = "/guide"
    /\ ~Raised(result.ret)
    /\ result.guidance.navigation_data # EmptyDict

\* C27: the "[Precise: ...]" suffix of the /guide instruction agrees with
\* the engine's turn class: it says "straight ahead" exactly when the
\* engine's direction is 'straight', and gives a left/right angle exactly
\* when the engine's instruction contains a turn clause.
C27_SuffixAgreesWithTurnClass ==
    C27_Precise =>
        LET suffix == TextAfter(result.ret.instruction, " [Precise: ")
            turns == ~Contains(result.guidance.instruction, "Target is directly ahead")
        IN  /\ suffix # ""
            /\ StartsWith(suffix, "straight ahead") <=> result.guidance.direction = "straight"
            /\ (Contains(suffix, "deg left, ") \/ Contains(suffix, "deg right, ")) <=> turns

\* _free_path_direction went on to select a widest gap
C29_Selected ==
    /\ result.fn = "_free_path_direction"
    /\ result.locals.widest # None

\* C29: the widest gap _free_path_direction selects lies within [0, 1], is
\* wider than 0.05 and overlaps the clipped interval of no detection.
C29_WidestGapIsFree ==
    C29_Selected =>
        LET widest == result.locals.widest[1]
            img_width == frame[1]
            Clip(x) == Max(0, Min(img_width, x))
        IN  /\ 0 <= widest[1] /\ widest[1] < widest[2] /\ widest[2] <= img_width
            /\ 100 * (widest[2] - widest[1]) > 5 * img_width
            /\ \A i \in DOMAIN objects :
                   objects[i].bbox # <<>> =>
                       LET x1 == Clip(objects[i].bbox[1])
                           x2 == Clip(objects[i].bbox[3])
                       IN  x1 < x2 => (x2 <= widest[1] \/ widest[2] <= x1)

\* a box nested in a wider one that reaches further right, and the gap that
\* starts where the wider one ends
C29_Witness ==
    /\ C29_Selected
    /\ \E i, j \in DOMAIN objects :
           /\ objects[i].bbox # <<>> /\ objects[j].bbox # <<>>
           /\ objects[i].bbox[1] < objects[j].bbox[1]
           /\ objects[j].bbox[3] < objects[i].bbox[3]
           /\ i < j
           /\ result.locals.widest[1][1] = objects[i].bbox[3]

\* the direction label seen in a mirror
C30_MirrorLabel(direction) ==
    CASE direction = "slightly left" -> "slightly right"
      [] direction = "left" -> "right"
      [] direction = "hard left" -> "hard right"
      [] direction = "slightly right" -> "slightly left"
      [] direction = "right" -> "left"
      [] direction = "hard right" -> "hard left"
      [] OTHER -> direction

\* C30: _free_path_direction is mirror-symmetric: on the mirrored frame
\* (every box (x1, x2) replaced by (width - x2, width - x1)) the direction is
\* the mirrored label ('center' stays), with the same distance label and
\* confidence.
C30_MirrorSymmetric ==
    (result.fn = "_free_path_direction" /\ prev.fn = "_free_path_direction") =>
        /\ result.ret.direction = C30_MirrorLabel(prev.ret.direction)
        /\ result.ret.distance = prev.ret.distance
        /\ result.ret.confidence = prev.ret.confidence

====
